---- MODULE Spec2Model ----
(***************************************************************************)
(* Model of the premium calculator: underwriting engine, actuarial         *)
(* calculator, product manager and regulatory engine.  Python floats are   *)
(* modelled as exact rationals <<numerator, denominator>> in lowest terms; *)
(* Python ints stay integers.  Every public operation (and every private   *)
(* helper a property is stated about) is one action that is applied to     *)
(* inputs drawn from bounded sets; its arguments and its result are kept   *)
(* in args and ret.  clock is the date datetime.now() returns; again holds *)
(* the result of invoking the operation a second time with the same        *)
(* arguments.                                                              *)
(***************************************************************************)
EXTENDS Integers, Sequences, FiniteSets, TLC

VARIABLES underwriting_rules, mortality_tables, morbidity_tables,
          product_definitions, op, args, ret, clock, again,
          requests, quote_results

vars == <<underwriting_rules, mortality_tables, morbidity_tables,
          product_definitions, op, args, ret, clock, again,
          requests, quote_results>>

\* the requests being served at the same time, each with its local variables,
\* and the QuoteResult objects their pricing calls have constructed
in_flight == <<requests, quote_results>>

tables == <<underwriting_rules, mortality_tables, morbidity_tables,
            product_definitions>>

(***************************************************************************)
(* Bounds of the model.                                                    *)
(***************************************************************************)
MaxConditions == 2
MaxTerm == 3
MaxPolicies == 2

(***************************************************************************)
(* Exact rational arithmetic standing for Python float arithmetic.         *)
(***************************************************************************)
Abs(n) == IF n < 0 THEN 0 - n ELSE n

RECURSIVE GCD(_, _)
GCD(a, b) == IF b = 0 THEN a ELSE GCD(b, a % b)

R(n, d) ==
    LET g == GCD(Abs(n), d)
    IN  IF n = 0 THEN <<0, 1>> ELSE <<n \div g, d \div g>>

I(n) == <<n, 1>>

RMul(x, y) ==
    IF x[1] = 0 \/ y[1] = 0 THEN <<0, 1>>
    ELSE LET g1 == GCD(Abs(x[1]), y[2])
             g2 == GCD(Abs(y[1]), x[2])
         IN  <<(x[1] \div g1) * (y[1] \div g2), (x[2] \div g2) * (y[2] \div g1)>>

RInv(x) == IF x[1] < 0 THEN <<0 - x[2], 0 - x[1]>> ELSE <<x[2], x[1]>>

RDiv(x, y) == RMul(x, RInv(y))

RAdd(x, y) ==
    LET g == GCD(x[2], y[2])
        l == (x[2] \div g) * y[2]
    IN  R(x[1] * (l \div x[2]) + y[1] * (l \div y[2]), l)

RNeg(x) == <<0 - x[1], x[2]>>

RSub(x, y) == RAdd(x, RNeg(y))

RLe(x, y) ==
    LET g == GCD(x[2], y[2])
    IN  x[1] * (y[2] \div g) <= y[1] * (x[2] \div g)

RLt(x, y) == RLe(x, y) /\ x # y

RMin(x, y) == IF RLe(x, y) THEN x ELSE y

\* Sums and products of the terms of a loop.  Rational arithmetic is exact, so
\* the terms are combined pairwise, which keeps the evaluation shallow.
RECURSIVE RSumRange(_, _, _)
RSumRange(s, lo, hi) ==
    IF lo > hi THEN I(0)
    ELSE IF lo = hi THEN s[lo]
    ELSE LET mid == (lo + hi) \div 2
         IN  RAdd(RSumRange(s, lo, mid), RSumRange(s, mid + 1, hi))

RSum(s) == RSumRange(s, 1, Cardinality(DOMAIN s))

RECURSIVE RProdRange(_, _, _)
RProdRange(s, lo, hi) ==
    IF lo > hi THEN I(1)
    ELSE IF lo = hi THEN s[lo]
    ELSE LET mid == (lo + hi) \div 2
         IN  RMul(RProdRange(s, lo, mid), RProdRange(s, mid + 1, hi))

RProd(s) == RProdRange(s, 1, Cardinality(DOMAIN s))

RPow(x, n) == RProd([i \in 1..n |-> x])

IMin(a, b) == IF a <= b THEN a ELSE b
IMax(a, b) == IF a >= b THEN a ELSE b

SeqsUpTo(S, n) == UNION {[1..k -> S] : k \in 0..n}

(***************************************************************************)
(* Table data.  The data files are configuration; the model draws them    *)
(* in Init from a small family and no action writes them.                  *)
(***************************************************************************)
ConditionNames == {"hypertension", "diabetes", "rare_disease"}


UnderwritingRules(m) ==
    [medical_conditions |->
        << [name |-> "cardiovascular",
            conds |-> ("hypertension" :> R(3, 2) @@ "diabetes" :> I(2))],
           [name |-> "diabetes",
            conds |-> ("diabetes" :> R(5, 2))] >>,
     smoking |-> ("smoker" :> I(2)),
     alcohol |-> ("none" :> m @@ "moderate_use" :> I(1) @@ "heavy_use" :> I(2)),
     hazardous_activities |-> ("skydiving" :> R(3, 2)),
     occupation_factors |->
        ("class_1_professional" :> R(9, 10) @@ "class_2_standard" :> I(1)
         @@ "class_4_manual" :> R(3, 2) @@ "class_5_hazardous" :> I(2)),
     max_coverage_multiple |-> I(20),
     max_benefit_percentage |-> R(3, 5),
     min_net_worth_1m |-> I(500000),
     min_net_worth_5m |-> I(2000000)]

\* the data sets the program is started with: the multiplier of the alcohol
\* rule "none" (a rule multiplier may be any value >= 0), the annual discount
\* rate of the mortality tables, and whether the product definitions hold a
\* reserve factor for critical illness
Configurations ==
    {[alcohol_none |-> R(0, 1), discount_rate |-> R(0, 1),
      ci_reserve_factor |-> FALSE],
     [alcohol_none |-> R(9, 10), discount_rate |-> R(1, 1),
      ci_reserve_factor |-> TRUE]}

\* CSO mortality: age -> rate, per gender; the JSON keys str(age) are the ages.
\* Ages outside the table fall to the rate at MaxTableAge (dict.get default).
MortalityTables(r) ==
    [CSO_2017 |->
        [male |-> (78 :> R(1, 4) @@ 79 :> R(1, 2) @@ 80 :> I(1)),
         female |-> (78 :> R(1, 8) @@ 79 :> R(1, 4) @@ 80 :> I(1))],
     discount_rates |-> [standard |-> r]]

MorbidityTables ==
    [disability_tables |->
        [occupation_classes |->
            ("1" :> [name |-> "Professional",
                     rates |-> << [age |-> 40, male |-> R(1, 100), female |-> R(1, 80)],
                                  [age |-> 60, male |-> R(1, 50), female |-> R(1, 40)] >>]
             @@ "2" :> [name |-> "Standard",
                        rates |-> << [age |-> 40, male |-> R(1, 80), female |-> R(1, 50)],
                                     [age |-> 60, male |-> R(1, 40), female |-> R(1, 25)] >>]
             @@ "4" :> [name |-> "Manual",
                        rates |-> << [age |-> 40, male |-> R(1, 40), female |-> R(1, 40)],
                                     [age |-> 60, male |-> R(1, 20), female |-> R(1, 20)] >>])],
     waiting_periods |->
        [disability |->
            ("30_days" :> [benefit_percentage |-> R(5, 4)]
             @@ "90_days" :> [benefit_percentage |-> I(1)]
             @@ "180_days" :> [benefit_percentage |-> R(3, 4)]
             @@ "365_days" :> [benefit_percentage |-> R(1, 2)])],
     critical_illness_tables |->
        [conditions |->
            ("cancer" :> << [age |-> 40, male |-> R(1, 400000), female |-> R(1, 400000)],
                            [age |-> 60, male |-> R(1, 200000), female |-> R(1, 400000)] >>
             @@ "heart_attack" :>
                         << [age |-> 40, male |-> R(1, 400000), female |-> R(1, 400000)],
                            [age |-> 60, male |-> R(1, 200000), female |-> R(1, 400000)] >>)]]

ProductDefinitions(ci_reserve_factor) ==
    [products |->
        [term_life |->
            [name |-> "Term Life Insurance", expense_load |-> R(1, 4),
             profit_margin |-> R(1, 8), commission |-> R(1, 8),
             min_age |-> 18, max_age |-> 80,
             min_coverage |-> 50000, max_coverage |-> 3000000,
             has_terms |-> TRUE, terms |-> 1..MaxTerm],
         whole_life |->
            [name |-> "Whole Life Insurance", expense_load |-> R(1, 2),
             profit_margin |-> R(1, 4), commission |-> R(1, 4),
             min_age |-> 18, max_age |-> 85,
             min_coverage |-> 50000, max_coverage |-> 3000000,
             has_terms |-> FALSE, terms |-> {}],
         disability_income |->
            [name |-> "Disability Income Insurance", expense_load |-> R(1, 4),
             profit_margin |-> R(1, 8), commission |-> R(1, 8),
             min_age |-> 50, max_age |-> 70,
             min_monthly_benefit |-> 500, max_monthly_benefit |-> 50000],
         critical_illness |->
            [name |-> "Critical Illness Insurance", expense_load |-> R(1, 4),
             profit_margin |-> R(1, 8), commission |-> R(1, 8),
             min_age |-> 18, max_age |-> 65,
             min_coverage |-> 50000, max_coverage |-> 1000000,
             covered_conditions |-> <<"cancer", "heart_attack", "stroke">>]],
     regulatory_requirements |->
        [reserve_factors |->
            IF ci_reserve_factor
            THEN ("term_life" :> R(1, 50) @@ "disability_income" :> R(1, 4)
                  @@ "critical_illness" :> R(1, 10))
            ELSE ("term_life" :> R(1, 50) @@ "disability_income" :> R(1, 4))]]

(***************************************************************************)
(* Underwriting engine.                                                    *)
(***************************************************************************)
Factor(kind, item, mult) == [kind |-> kind, item |-> item, mult |-> mult]

calculate_bmi(weight_lbs, height_inches) ==
    IF RLe(height_inches, I(0)) THEN I(25)
    ELSE RDiv(RMul(weight_lbs, I(703)), RMul(height_inches, height_inches))

assess_bmi_risk_off(bmi) ==
    IF RLt(bmi, R(37, 2)) THEN [mult |-> R(6, 5), text |-> "Underweight BMI"]
    ELSE IF RLe(R(37, 2), bmi) /\ RLe(bmi, I(25))
         THEN [mult |-> I(1), text |-> "None"]
    ELSE IF RLt(I(25), bmi) /\ RLt(bmi, I(30))
         THEN [mult |-> R(11, 10), text |-> "Overweight BMI"]
    ELSE IF RLe(I(30), bmi) /\ RLt(bmi, I(35))
         THEN [mult |-> R(13, 10), text |-> "Obese Class I BMI"]
    ELSE IF RLe(I(35), bmi) /\ RLt(bmi, I(40))
         THEN [mult |-> I(2), text |-> "Obese Class II BMI"]
    ELSE [mult |-> I(3), text |-> "Obese Class III BMI"]

assess_bmi_risk(bmi) ==
    IF RLt(bmi, R(37, 2)) THEN [mult |-> R(6, 5), text |-> "Underweight BMI"]
    ELSE IF RLe(R(37, 2), bmi) /\ RLt(bmi, I(25))
         THEN [mult |-> I(1), text |-> "None"]
    ELSE IF RLe(I(25), bmi) /\ RLt(bmi, I(30))
         THEN [mult |-> R(11, 10), text |-> "Overweight BMI"]
    ELSE IF RLe(I(30), bmi) /\ RLt(bmi, I(35))
         THEN [mult |-> R(13, 10), text |-> "Obese Class I BMI"]
    ELSE IF RLe(I(35), bmi) /\ RLt(bmi, I(40))
         THEN [mult |-> I(2), text |-> "Obese Class II BMI"]
    ELSE [mult |-> I(3), text |-> "Obese Class III BMI"]

\* indexes of the rule categories that contain the condition, in dict order
CategoriesWith(rules, condition) ==
    {i \in 1..Len(rules.medical_conditions) :
        condition \in DOMAIN rules.medical_conditions[i].conds}

FirstOf(S) == CHOOSE i \in S : \A j \in S : i <= j
LastOf(S) == CHOOSE i \in S : \A j \in S : i >= j

\* the inner for/break loop over the categories for one declared condition
condition_factor_last(rules, condition) ==
    LET found == CategoriesWith(rules, condition)
    IN  IF found = {}
        THEN Factor("Medical unknown", condition, R(3, 2))
        ELSE Factor("Medical", condition,
                    rules.medical_conditions[LastOf(found)].conds[condition])

condition_factor(rules, condition) ==
    LET found == CategoriesWith(rules, condition)
    IN  IF found = {}
        THEN Factor("Medical unknown", condition, R(3, 2))
        ELSE Factor("Medical", condition,
                    rules.medical_conditions[FirstOf(found)].conds[condition])

assess_medical_risk(rules, medical_history) ==
    LET medical_conditions == medical_history.conditions
        cond_factors == [i \in 1..Len(medical_conditions) |->
                            condition_factor(rules, medical_conditions[i])]
        cond_mult == RProd([i \in 1..Len(cond_factors) |-> cond_factors[i].mult])
        has_bmi == medical_history.has_height /\ medical_history.has_weight
        bmi == calculate_bmi(medical_history.weight, medical_history.height)
        bmi_risk == assess_bmi_risk(bmi)
        bmi_mult == IF has_bmi THEN bmi_risk.mult ELSE I(1)
        bmi_factors == IF has_bmi /\ bmi_risk.text # "None"
                       THEN <<Factor(bmi_risk.text, "", bmi_risk.mult)>>
                       ELSE <<>>
        age == IF medical_history.has_age THEN medical_history.age ELSE 30
        age_applies == Len(medical_conditions) > 0 /\ age > 60
        age_mult == IF age_applies THEN R(11, 10) ELSE I(1)
        age_factors == IF age_applies
                       THEN <<Factor("Age adjustment for medical conditions", "",
                                     R(11, 10))>>
                       ELSE <<>>
    IN  [multiplier |-> RMul(RMul(cond_mult, bmi_mult), age_mult),
         risk_factors |-> cond_factors \o bmi_factors \o age_factors]

assess_lifestyle_risk(rules, lifestyle_info) ==
    LET smoking_status == lifestyle_info.smoking_status
        smoking_applies == smoking_status # "non_smoker"
                           /\ smoking_status \in DOMAIN rules.smoking
        smoking_mult == IF smoking_applies THEN rules.smoking[smoking_status]
                        ELSE I(1)
        smoking_factors == IF smoking_applies
                           THEN <<Factor("Smoking", smoking_status, smoking_mult)>>
                           ELSE <<>>
        alcohol_use == lifestyle_info.alcohol_use
        alcohol_applies == alcohol_use \in DOMAIN rules.alcohol
        alcohol_mult == IF alcohol_applies THEN rules.alcohol[alcohol_use] ELSE I(1)
        alcohol_factors == IF alcohol_applies /\ RLt(I(1), alcohol_mult)
                           THEN <<Factor("Alcohol use", alcohol_use, alcohol_mult)>>
                           ELSE <<>>
        activities == lifestyle_info.hazardous_activities
        ruled == SelectSeq(activities,
                           LAMBDA a : a \in DOMAIN rules.hazardous_activities)
        activity_factors == [i \in 1..Len(ruled) |->
                                Factor("Hazardous activity", ruled[i],
                                       rules.hazardous_activities[ruled[i]])]
        activity_mult == RProd([i \in 1..Len(ruled) |-> activity_factors[i].mult])
    IN  [multiplier |-> RMul(RMul(smoking_mult, alcohol_mult), activity_mult),
         risk_factors |-> smoking_factors \o alcohol_factors \o activity_factors]

class_key(occupation_class) ==
    IF occupation_class = 1 THEN "class_1_professional"
    ELSE IF occupation_class = 2 THEN "class_2_standard"
    ELSE IF occupation_class = 3 THEN "class_3_skilled"
    ELSE IF occupation_class = 4 THEN "class_4_manual"
    ELSE "class_5_hazardous"

\* the age adjustment applied from age 50 on
assess_occupation_risk_from_50(rules, occupation_info, age) ==
    LET occupation_class == occupation_info.class
        key == class_key(occupation_class)
        has_rule == key \in DOMAIN rules.occupation_factors
        base == IF has_rule THEN rules.occupation_factors[key] ELSE I(1)
        base_factors == IF has_rule /\ base # I(1)
                        THEN <<Factor("Occupation", key, base)>> ELSE <<>>
        age_applies == occupation_class >= 4 /\ age >= 50
        age_factors == IF age_applies
                       THEN <<Factor("Age + hazardous occupation adjustment", "",
                                     R(6, 5))>>
                       ELSE <<>>
    IN  [multiplier |-> IF age_applies THEN RMul(base, R(6, 5)) ELSE base,
         risk_factors |-> base_factors \o age_factors]

assess_occupation_risk(rules, occupation_info, age) ==
    LET occupation_class == occupation_info.class
        key == class_key(occupation_class)
        has_rule == key \in DOMAIN rules.occupation_factors
        base == IF has_rule THEN rules.occupation_factors[key] ELSE I(1)
        base_factors == IF has_rule /\ base # I(1)
                        THEN <<Factor("Occupation", key, base)>> ELSE <<>>
        age_applies == occupation_class >= 4 /\ age > 50
        age_factors == IF age_applies
                       THEN <<Factor("Age + hazardous occupation adjustment", "",
                                     R(6, 5))>>
                       ELSE <<>>
    IN  [multiplier |-> IF age_applies THEN RMul(base, R(6, 5)) ELSE base,
         risk_factors |-> base_factors \o age_factors]

\* the net worth rules multiplying the score instead of setting it
assess_financial_capacity_combined(rules, financial_info, coverage_amount, product_type) ==
    LET annual_income == financial_info.annual_income
        net_worth == financial_info.net_worth
        total_debt == financial_info.total_debt
        is_life == product_type \in {"term_life", "whole_life"}
        over_income ==
            IF is_life
            THEN RLt(RMul(I(annual_income), rules.max_coverage_multiple),
                     I(coverage_amount))
            ELSE IF product_type = "disability_income"
            THEN RLt(RMul(R(annual_income, 12), rules.max_benefit_percentage),
                     I(coverage_amount))
            ELSE FALSE
        score1 == IF over_income THEN I(2) ELSE I(1)
        factors1 == IF over_income
                    THEN <<Factor(IF is_life
                                  THEN "Coverage exceeds annual income limit"
                                  ELSE "Monthly benefit exceeds share of monthly income",
                                  "", I(2))>>
                    ELSE <<>>
        below_5m == coverage_amount >= 5000000
                    /\ RLt(I(net_worth), rules.min_net_worth_5m)
        below_1m == coverage_amount >= 1000000 /\ coverage_amount < 5000000
                    /\ RLt(I(net_worth), rules.min_net_worth_1m)
        score2 == IF below_5m THEN RMul(score1, I(3))
                  ELSE IF below_1m THEN RMul(score1, I(2)) ELSE score1
        factors2 == IF below_5m \/ below_1m
                    THEN <<Factor("Net worth below requirement", "", score2)>>
                    ELSE <<>>
        high_dti == annual_income > 0
                    /\ RLt(R(2, 5), R(total_debt, IMax(annual_income, 1)))
        factors3 == IF high_dti
                    THEN <<Factor("High debt-to-income ratio", "", R(13, 10))>>
                    ELSE <<>>
    IN  [score |-> IF high_dti THEN RMul(score2, R(13, 10)) ELSE score2,
         risk_factors |-> factors1 \o factors2 \o factors3]

assess_financial_capacity(rules, financial_info, coverage_amount, product_type) ==
    LET annual_income == financial_info.annual_income
        net_worth == financial_info.net_worth
        total_debt == financial_info.total_debt
        is_life == product_type \in {"term_life", "whole_life"}
        over_income ==
            IF is_life
            THEN RLt(RMul(I(annual_income), rules.max_coverage_multiple),
                     I(coverage_amount))
            ELSE IF product_type = "disability_income"
            THEN RLt(RMul(R(annual_income, 12), rules.max_benefit_percentage),
                     I(coverage_amount))
            ELSE FALSE
        score1 == IF over_income THEN I(2) ELSE I(1)
        factors1 == IF over_income
                    THEN <<Factor(IF is_life
                                  THEN "Coverage exceeds annual income limit"
                                  ELSE "Monthly benefit exceeds share of monthly income",
                                  "", I(2))>>
                    ELSE <<>>
        below_5m == coverage_amount >= 5000000
                    /\ RLt(I(net_worth), rules.min_net_worth_5m)
        below_1m == coverage_amount >= 1000000 /\ coverage_amount < 5000000
                    /\ RLt(I(net_worth), rules.min_net_worth_1m)
        score2 == IF below_5m THEN I(3) ELSE IF below_1m THEN I(2) ELSE score1
        factors2 == IF below_5m \/ below_1m
                    THEN <<Factor("Net worth below requirement", "", score2)>>
                    ELSE <<>>
        high_dti == annual_income > 0
                    /\ RLt(R(2, 5), R(total_debt, IMax(annual_income, 1)))
        factors3 == IF high_dti
                    THEN <<Factor("High debt-to-income ratio", "", R(13, 10))>>
                    ELSE <<>>
    IN  [score |-> IF high_dti THEN RMul(score2, R(13, 10)) ELSE score2,
         risk_factors |-> factors1 \o factors2 \o factors3]

combine_risk_factors_uncapped(medical_risk, lifestyle_risk, occupation_risk) ==
    RMul(RMul(medical_risk, lifestyle_risk), occupation_risk)

combine_risk_factors(medical_risk, lifestyle_risk, occupation_risk) ==
    RMin(RMul(RMul(medical_risk, lifestyle_risk), occupation_risk), I(10))

make_underwriting_decision_gate(overall_risk, financial_risk, coverage_amount) ==
    IF RLt(I(3), financial_risk)
    THEN [decision |-> "declined", maximum_coverage |-> 0]
    ELSE IF RLe(overall_risk, R(19, 20))
    THEN [decision |-> "approved_preferred", maximum_coverage |-> coverage_amount]
    ELSE IF RLe(overall_risk, I(2))
    THEN IF RLe(overall_risk, R(6, 5))
         THEN [decision |-> "approved_standard",
               maximum_coverage |-> coverage_amount]
         ELSE [decision |-> "approved_substandard",
               maximum_coverage |-> IMin(coverage_amount, 2000000)]
    ELSE IF RLe(overall_risk, I(4))
    THEN [decision |-> "approved_substandard",
          maximum_coverage |-> IMin(coverage_amount, 500000)]
    ELSE [decision |-> "declined", maximum_coverage |-> 0]

make_underwriting_decision_bands(overall_risk, financial_risk, coverage_amount) ==
    IF RLe(I(3), financial_risk)
    THEN [decision |-> "declined", maximum_coverage |-> 0]
    ELSE IF RLt(overall_risk, R(19, 20))
    THEN [decision |-> "approved_preferred", maximum_coverage |-> coverage_amount]
    ELSE IF RLe(overall_risk, I(2))
    THEN IF RLe(overall_risk, R(6, 5))
         THEN [decision |-> "approved_standard",
               maximum_coverage |-> coverage_amount]
         ELSE [decision |-> "approved_substandard",
               maximum_coverage |-> IMin(coverage_amount, 2000000)]
    ELSE IF RLe(overall_risk, I(4))
    THEN [decision |-> "approved_substandard",
          maximum_coverage |-> IMin(coverage_amount, 500000)]
    ELSE [decision |-> "declined", maximum_coverage |-> 0]

make_underwriting_decision_nocap(overall_risk, financial_risk, coverage_amount) ==
    IF RLe(I(3), financial_risk)
    THEN [decision |-> "declined", maximum_coverage |-> 0]
    ELSE IF RLe(overall_risk, R(19, 20))
    THEN [decision |-> "approved_preferred", maximum_coverage |-> coverage_amount]
    ELSE IF RLe(overall_risk, I(2))
    THEN IF RLe(overall_risk, R(6, 5))
         THEN [decision |-> "approved_standard",
               maximum_coverage |-> coverage_amount]
         ELSE [decision |-> "approved_substandard",
               maximum_coverage |-> 2000000]
    ELSE IF RLe(overall_risk, I(4))
    THEN [decision |-> "approved_substandard",
          maximum_coverage |-> 500000]
    ELSE [decision |-> "declined", maximum_coverage |-> 0]

make_underwriting_decision(overall_risk, financial_risk, coverage_amount) ==
    IF RLe(I(3), financial_risk)
    THEN [decision |-> "declined", maximum_coverage |-> 0]
    ELSE IF RLe(overall_risk, R(19, 20))
    THEN [decision |-> "approved_preferred", maximum_coverage |-> coverage_amount]
    ELSE IF RLe(overall_risk, I(2))
    THEN IF RLe(overall_risk, R(6, 5))
         THEN [decision |-> "approved_standard",
               maximum_coverage |-> coverage_amount]
         ELSE [decision |-> "approved_substandard",
               maximum_coverage |-> IMin(coverage_amount, 2000000)]
    ELSE IF RLe(overall_risk, I(4))
    THEN [decision |-> "approved_substandard",
          maximum_coverage |-> IMin(coverage_amount, 500000)]
    ELSE [decision |-> "declined", maximum_coverage |-> 0]

\* the financial score folded into the overall multiplier
RiskAssessment_folded(medical, lifestyle, occupation, financial, coverage_amount) ==
    LET overall_risk == combine_risk_factors(
                            RMul(medical.multiplier, financial.score),
                            lifestyle.multiplier, occupation.multiplier)
        made == make_underwriting_decision(overall_risk, financial.score,
                                           coverage_amount)
    IN  [overall_risk_multiplier |-> overall_risk,
         medical_risk_multiplier |-> medical.multiplier,
         lifestyle_risk_multiplier |-> lifestyle.multiplier,
         occupation_risk_multiplier |-> occupation.multiplier,
         financial_risk_score |-> financial.score,
         underwriting_decision |-> made.decision,
         maximum_coverage |-> made.maximum_coverage,
         risk_factors_identified |->
            medical.risk_factors \o lifestyle.risk_factors
            \o occupation.risk_factors \o financial.risk_factors]

\* the RiskAssessment built from the four sub-assessments; the underwriting
\* notes are presentation text and are left out
RiskAssessment(medical, lifestyle, occupation, financial, coverage_amount) ==
    LET overall_risk == combine_risk_factors(medical.multiplier, lifestyle.multiplier,
                                             occupation.multiplier)
        made == make_underwriting_decision(overall_risk, financial.score,
                                           coverage_amount)
    IN  [overall_risk_multiplier |-> overall_risk,
         medical_risk_multiplier |-> medical.multiplier,
         lifestyle_risk_multiplier |-> lifestyle.multiplier,
         occupation_risk_multiplier |-> occupation.multiplier,
         financial_risk_score |-> financial.score,
         underwriting_decision |-> made.decision,
         maximum_coverage |-> made.maximum_coverage,
         risk_factors_identified |->
            medical.risk_factors \o lifestyle.risk_factors
            \o occupation.risk_factors \o financial.risk_factors]

perform_comprehensive_risk_assessment(rules, applicant_data, product_type, coverage_amount) ==
    RiskAssessment(
        assess_medical_risk(rules, applicant_data.medical_history),
        assess_lifestyle_risk(rules, applicant_data.lifestyle),
        assess_occupation_risk(rules, applicant_data.occupation, applicant_data.age),
        assess_financial_capacity(rules, applicant_data.financial_info,
                                  coverage_amount, product_type),
        coverage_amount)

(***************************************************************************)
(* Actuarial calculator.                                                   *)
(***************************************************************************)
MaxTableAge == 80

Failure(kind) == [error |-> kind]

\* 1 / (1 + discount_rate) ** year
pv_factor(discount_rate, year) ==
    RDiv(I(1), RPow(RAdd(I(1), discount_rate), year))

\* cso_table.get(str(min(age + year, 80)), cso_table['80'])
mortality_rate_low_ceiling(cso_table, age, year) ==
    LET current_age == IMin(age + year, MaxTableAge - 1)
    IN  IF current_age \in DOMAIN cso_table THEN cso_table[current_age]
        ELSE cso_table[MaxTableAge]

mortality_rate(cso_table, age, year) ==
    LET current_age == IMin(age + year, MaxTableAge)
    IN  IF current_age \in DOMAIN cso_table THEN cso_table[current_age]
        ELSE cso_table[MaxTableAge]

\* the rates the loop over range(term) looks up, year 0 first
mortality_rates(cso_table, age, term) ==
    [i \in 1..term |-> mortality_rate(cso_table, age, i - 1)]

\* a lookup raises KeyError when the gender has no table, or when a year is
\* looked up in a table without the key '80' (the default is evaluated first)
cso_lookup_fails(tables_, gender, term) ==
    \/ gender \notin DOMAIN tables_.CSO_2017
    \/ term > 0 /\ MaxTableAge \notin DOMAIN tables_.CSO_2017[gender]

calculate_mortality_cost(tables_, age, gender, term) ==
    LET cso_table == tables_.CSO_2017[gender]
        discount_rate == tables_.discount_rates.standard
        rates == mortality_rates(cso_table, age, term)
    IN  RSum([i \in 1..term |-> RMul(rates[i], pv_factor(discount_rate, i - 1))])

calculate_benefit_present_value(coverage, mortality_cost) ==
    RMul(I(coverage), mortality_cost)

\* the survival probability already reduced by the mortality of the year itself
survival_prob_shifted(rates, y) ==
    RProd([k \in 1..(y + 1) |-> RSub(I(1), rates[k])])

\* survival probability at the start of year y (years count from 0)
survival_prob(rates, y) ==
    RProd([k \in 1..y |-> RSub(I(1), rates[k])])

calculate_premium_present_value(tables_, term, age, gender) ==
    LET cso_table == tables_.CSO_2017[gender]
        discount_rate == tables_.discount_rates.standard
        rates == mortality_rates(cso_table, age, term)
    IN  RSum([i \in 1..term |->
                RMul(survival_prob(rates, i - 1), pv_factor(discount_rate, i - 1))])

net_premium_of_unguarded(benefit_pv, premium_pv) ==
    IF premium_pv = I(0) THEN benefit_pv ELSE RDiv(benefit_pv, premium_pv)

\* benefit_pv / premium_pv if premium_pv > 0 else 0
net_premium_of(benefit_pv, premium_pv) ==
    IF RLt(I(0), premium_pv) THEN RDiv(benefit_pv, premium_pv) ELSE I(0)

CategoryNames(rules) ==
    {rules.medical_conditions[i].name : i \in 1..Len(rules.medical_conditions)}

\* risk_factors: the optional keys of the dict are has_* flags
NoRiskFactors ==
    [has_medical_conditions |-> FALSE, medical_conditions |-> <<>>,
     has_smoking_status |-> FALSE, smoking_status |-> "non_smoker",
     has_hazardous_activities |-> FALSE, hazardous_activities |-> <<>>]

calculate_risk_multiplier(rules, risk_factors) ==
    LET conds == IF risk_factors.has_medical_conditions
                 THEN risk_factors.medical_conditions ELSE <<>>
        cond_mult(c) ==
            IF c \in CategoryNames(rules) /\ CategoriesWith(rules, c) # {}
            THEN rules.medical_conditions[FirstOf(CategoriesWith(rules, c))].conds[c]
            ELSE I(1)
        smoking_mult ==
            IF risk_factors.has_smoking_status
               /\ risk_factors.smoking_status \in DOMAIN rules.smoking
            THEN rules.smoking[risk_factors.smoking_status] ELSE I(1)
        acts == IF risk_factors.has_hazardous_activities
                THEN SelectSeq(risk_factors.hazardous_activities,
                               LAMBDA a : a \in DOMAIN rules.hazardous_activities)
                ELSE <<>>
    IN  RMul(RMul(RProd([i \in 1..Len(conds) |-> cond_mult(conds[i])]), smoking_mult),
             RProd([i \in 1..Len(acts) |-> rules.hazardous_activities[acts[i]]]))

calculate_policy_reserves(products_, coverage_amount, product_type) ==
    LET reserve_factors == products_.regulatory_requirements.reserve_factors
        reserve_factor == IF product_type \in DOMAIN reserve_factors
                          THEN reserve_factors[product_type] ELSE R(1, 20)
    IN  RMul(I(coverage_amount), reserve_factor)

validate_life_insurance_inputs(age, coverage, term, product) ==
    /\ ~(age < product.min_age \/ age > product.max_age)
    /\ ~(coverage < product.min_coverage \/ coverage > product.max_coverage)
    /\ ~(product.has_terms /\ term \notin product.terms)

loads_of_no_commission(product) ==
    RAdd(RAdd(I(1), product.expense_load), product.profit_margin)

\* 1 + expense_load + profit_margin + commission
loads_of(product) ==
    RAdd(RAdd(RAdd(I(1), product.expense_load), product.profit_margin),
         product.commission)

\* the QuoteResult of a life premium, from the net premium on
LifeQuoteResult(product, product_type, mortality_cost, net_premium, risk_multiplier, reserves) ==
    LET adjusted_net_premium == RMul(net_premium, risk_multiplier)
        loads == loads_of(product)
        gross_premium == RMul(adjusted_net_premium, loads)
    IN  [error |-> "none",
         gross_premium |-> gross_premium,
         net_premium |-> net_premium,
         expense_load |-> product.expense_load,
         profit_margin |-> product.profit_margin,
         commission |-> product.commission,
         reserves |-> reserves,
         risk_multiplier |-> risk_multiplier,
         breakdown |->
            [base_mortality_cost |-> mortality_cost,
             net_premium |-> net_premium,
             risk_adjustment |-> risk_multiplier,
             adjusted_net_premium |-> adjusted_net_premium,
             expense_loading |->
                RDiv(RMul(gross_premium, product.expense_load), loads),
             profit_margin |->
                RDiv(RMul(gross_premium, product.profit_margin), loads),
             commission |-> RDiv(RMul(gross_premium, product.commission), loads),
             policy_reserves |-> reserves,
             annual_premium |-> IF product_type = "term_life"
                                THEN RMul(gross_premium, I(12))
                                ELSE gross_premium]]

life_net_premium(coverage_amount, mortality_cost, premium_pv) ==
    net_premium_of(calculate_benefit_present_value(coverage_amount, mortality_cost),
                   premium_pv)

life_premium_from(product, product_type, coverage_amount, mortality_cost, premium_pv, risk_multiplier, reserves) ==
    LifeQuoteResult(product, product_type, mortality_cost,
                    life_net_premium(coverage_amount, mortality_cost, premium_pv),
                    risk_multiplier, reserves)

calculate_life_insurance_premium(rules, tables_, products_, age, gender, coverage_amount, policy_term, product_type, risk_factors) ==
    IF product_type \notin DOMAIN products_.products THEN Failure("KeyError")
    ELSE IF ~validate_life_insurance_inputs(age, coverage_amount, policy_term,
                                            products_.products[product_type])
    THEN Failure("ValueError")
    ELSE IF cso_lookup_fails(tables_, gender, policy_term) THEN Failure("KeyError")
    ELSE life_premium_from(
             products_.products[product_type], product_type, coverage_amount,
             calculate_mortality_cost(tables_, age, gender, policy_term),
             calculate_premium_present_value(tables_, policy_term, age, gender),
             calculate_risk_multiplier(rules, risk_factors),
             calculate_policy_reserves(products_, coverage_amount, product_type))

\* int(benefit_period.split('_')[0]): the leading token, then its integer value
LeadingToken ==
    ("2_years" :> "2" @@ "5_years" :> "5" @@ "2 years" :> "2 years")

IntOfToken == ("2" :> 2 @@ "5" :> 5)

benefit_period_parses(benefit_period) ==
    benefit_period = "to_age_65" \/ LeadingToken[benefit_period] \in DOMAIN IntOfToken

benefit_period_years(benefit_period, age) ==
    IF benefit_period = "to_age_65" THEN IMax(65 - age, 0)
    ELSE IntOfToken[LeadingToken[benefit_period]]

calculate_disability_present_value(tables_, monthly_benefit, morbidity_rate, age, benefit_period) ==
    LET discount_rate == tables_.discount_rates.standard
        years == benefit_period_years(benefit_period, age)
        annual_benefit == monthly_benefit * 12
    IN  RSum([i \in 1..years |->
                RMul(RMul(I(annual_benefit), morbidity_rate),
                     pv_factor(discount_rate, i - 1))])

get_waiting_period_adjustment(morbidity_, waiting_days) ==
    LET waiting_periods == morbidity_.waiting_periods.disability
    IN  IF waiting_days <= 30 THEN waiting_periods["30_days"]
        ELSE IF waiting_days <= 90 THEN waiting_periods["90_days"]
        ELSE IF waiting_days <= 180 THEN waiting_periods["180_days"]
        ELSE waiting_periods["365_days"]

\* min(ages, key=lambda x: abs(x - age)): the first of the closest ages
find_closest_age(age, age_data) ==
    LET best == CHOOSE i \in 1..Len(age_data) :
                    /\ \A j \in 1..Len(age_data) :
                          Abs(age_data[i].age - age) <= Abs(age_data[j].age - age)
                    /\ \A j \in 1..(i - 1) :
                          Abs(age_data[j].age - age) > Abs(age_data[i].age - age)
    IN  age_data[best].age

RateAt(age_data, age, gender) ==
    LET i == CHOOSE k \in 1..Len(age_data) : age_data[k].age = age
    IN  age_data[i][gender]

validate_disability_inputs(morbidity_, age, benefit, occ_class, product) ==
    /\ ~(age < product.min_age \/ age > product.max_age)
    /\ ~(benefit < product.min_monthly_benefit
         \/ benefit > product.max_monthly_benefit)
    /\ ToString(occ_class) \in DOMAIN morbidity_.disability_tables.occupation_classes

\* the QuoteResult of a disability premium, from the net premium on
DisabilityQuoteResult(product, occ_data, occupation_class, morbidity_rate, net_premium, benefit_percentage, reserves) ==
    LET adjusted_net_premium == RMul(net_premium, benefit_percentage)
        gross_premium == RMul(adjusted_net_premium, loads_of(product))
    IN  [error |-> "none",
         gross_premium |-> gross_premium,
         net_premium |-> net_premium,
         expense_load |-> product.expense_load,
         profit_margin |-> product.profit_margin,
         commission |-> product.commission,
         reserves |-> reserves,
         risk_multiplier |-> I(1),
         breakdown |->
            [base_morbidity_rate |-> morbidity_rate,
             net_premium |-> net_premium,
             waiting_period_adjustment |-> benefit_percentage,
             adjusted_net_premium |-> adjusted_net_premium,
             monthly_premium |-> gross_premium,
             annual_premium |-> RMul(gross_premium, I(12)),
             occupation_class |-> occupation_class,
             occupation_description |-> occ_data.name]]

disability_premium_from(tables_, morbidity_, products_, product, occ_data, age, gender, occupation_class, monthly_benefit, benefit_period, waiting_period, morbidity_rate) ==
    DisabilityQuoteResult(
        product, occ_data, occupation_class, morbidity_rate,
        net_premium_of(
            calculate_disability_present_value(tables_, monthly_benefit,
                                               morbidity_rate, age, benefit_period),
            calculate_premium_present_value(tables_, 65 - age, age, gender)),
        get_waiting_period_adjustment(morbidity_, waiting_period).benefit_percentage,
        calculate_policy_reserves(products_, monthly_benefit * 12,
                                  "disability_income"))

disability_morbidity_rate(occ_data, age, gender) ==
    RateAt(occ_data.rates, find_closest_age(age, occ_data.rates), gender)

calculate_disability_premium(tables_, morbidity_, products_, age, gender, occupation_class, monthly_benefit, benefit_period, waiting_period) ==
    IF "disability_income" \notin DOMAIN products_.products THEN Failure("KeyError")
    ELSE IF ~validate_disability_inputs(morbidity_, age, monthly_benefit,
                                        occupation_class,
                                        products_.products.disability_income)
    THEN Failure("ValueError")
    ELSE IF gender \notin {"male", "female"} THEN Failure("KeyError")
    ELSE IF ~benefit_period_parses(benefit_period) THEN Failure("ValueError")
    ELSE IF cso_lookup_fails(tables_, gender, 65 - age) THEN Failure("KeyError")
    ELSE disability_premium_from(
             tables_, morbidity_, products_, products_.products.disability_income,
             morbidity_.disability_tables.occupation_classes[
                 ToString(occupation_class)],
             age, gender, occupation_class, monthly_benefit, benefit_period,
             waiting_period,
             disability_morbidity_rate(
                 morbidity_.disability_tables.occupation_classes[
                     ToString(occupation_class)], age, gender))

(***************************************************************************)
(* Regulatory engine: present value of the future benefits of a policy.    *)
(***************************************************************************)
\* mortality_tables.get('CSO_2017', {}).get(gender, {})
reserve_mortality_table(tables_, gender) ==
    IF gender \in DOMAIN tables_.CSO_2017 THEN tables_.CSO_2017[gender] ELSE <<>>

\* float(mortality_table.get(str(min(age + year, 80)), 0.01))
reserve_mortality_rate(mortality_table, age, year) ==
    LET current_age == IMin(age + year, MaxTableAge)
    IN  IF current_age \in DOMAIN mortality_table THEN mortality_table[current_age]
        ELSE R(1, 100)

reserve_mortality_rates(tables_, policy) ==
    [i \in 1..policy.remaining_years |->
        reserve_mortality_rate(reserve_mortality_table(tables_, policy.gender),
                               policy.current_age, i - 1)]

calculate_future_benefits_pv(tables_, policy) ==
    LET discount_rate == tables_.discount_rates.standard
        rates == reserve_mortality_rates(tables_, policy)
        coverage_amount == I(policy.coverage_amount)
    IN  RSum([i \in 1..policy.remaining_years |->
                RAdd(RMul(RMul(coverage_amount, rates[i]),
                          pv_factor(discount_rate, i - 1)),
                     IF policy.product_type = "critical_illness"
                     THEN RMul(RMul(coverage_amount, R(1, 500)),
                               pv_factor(discount_rate, i - 1))
                     ELSE I(0))])

(***************************************************************************)
(* Regulatory engine: dates.  A date is the value datetime.strptime gives; *)
(* the arithmetic is that of the proleptic Gregorian calendar.             *)
(***************************************************************************)
Date(y, m, d) == [year |-> y, month |-> m, day |-> d]

is_leap(y) == (y % 4 = 0 /\ y % 100 # 0) \/ y % 400 = 0

DaysBeforeMonth == <<0, 31, 59, 90, 120, 151, 181, 212, 243, 273, 304, 334>>

\* the day number of a date: (next_anniversary - valuation).days is a difference
toordinal(date) ==
    LET y == date.year - 1
    IN  y * 365 + (y \div 4) - (y \div 100) + (y \div 400)
        + DaysBeforeMonth[date.month]
        + (IF date.month > 2 /\ is_leap(date.year) THEN 1 ELSE 0)
        + date.day

\* anniversary.replace(year=y) raises ValueError for 29 February in a common year
replace_year_fails(date, y) == date.month = 2 /\ date.day = 29 /\ ~is_leap(y)

replace_year(date, y) == [date EXCEPT !.year = y]

(***************************************************************************)
(* Regulatory engine: reserves of a portfolio.  A policy is a dict; a key  *)
(* that may be absent has a has_ flag.                                     *)
(***************************************************************************)
RMax(x, y) == IF RLe(y, x) THEN x ELSE y

\* x <= y for non-negative rationals by continued fractions: no product is
\* formed, so that the comparison of squares stays within the integers
RECURSIVE RLeSafe(_, _)
RLeSafe(x, y) ==
    LET qx == x[1] \div x[2]
        qy == y[1] \div y[2]
        rx == x[1] % x[2]
        ry == y[1] % y[2]
    IN  IF qx # qy THEN qx < qy
        ELSE IF rx = 0 THEN TRUE
        ELSE IF ry = 0 THEN FALSE
        ELSE RLeSafe(<<y[2], ry>>, <<x[2], rx>>)

\* math.sqrt(radicand) + addend, kept in closed form
Surd(radicand, addend) == [radicand |-> radicand, addend |-> addend]

\* math.sqrt(s.radicand) + s.addend <= x
SurdLe(s, x) ==
    LET y == RSub(x, s.addend)
    IN  RLe(I(0), y) /\ RLeSafe(s.radicand, RMul(y, y))

\* x <= math.sqrt(s.radicand) + s.addend
RLeSurd(x, s) ==
    LET y == RSub(x, s.addend)
    IN  RLe(y, I(0)) \/ RLeSafe(RMul(y, y), s.radicand)

minimum_reserve_ratios ==
    ("term_life" :> R(1, 50) @@ "whole_life" :> R(3, 20)
     @@ "disability_income" :> R(1, 4) @@ "critical_illness" :> R(1, 10))

claims_reserve_factors ==
    ("term_life" :> R(1, 1000) @@ "whole_life" :> R(1, 500)
     @@ "disability_income" :> R(1, 20) @@ "critical_illness" :> R(1, 100))

solvency_margins ==
    [life_insurance |-> R(1, 25), disability_insurance |-> R(2, 25),
     critical_illness |-> R(3, 50)]

risk_based_capital ==
    [c1_asset_risk |-> R(3, 1000), c2_insurance_risk |-> R(15, 1000),
     c3_interest_rate_risk |-> R(1, 1000), c4_business_risk |-> R(3, 1000)]

calculate_future_premiums_pv(tables_, policy) ==
    LET discount_rate == tables_.discount_rates.standard
        rates == reserve_mortality_rates(tables_, policy)
    IN  RSum([i \in 1..policy.remaining_years |->
                RMul(I(policy.annual_premium),
                     RMul(survival_prob(rates, i - 1),
                          pv_factor(discount_rate, i - 1)))])

\* reserve_factors.get(product_type, 0.05)
base_reserve_factor(product_type) ==
    IF product_type \in DOMAIN minimum_reserve_ratios
    THEN minimum_reserve_ratios[product_type] ELSE R(1, 20)

policy_reserve_unfloored(future_benefits_pv, future_premiums_pv, coverage_amount, factor) ==
    RSub(future_benefits_pv, future_premiums_pv)

\* max(future_benefits_pv - future_premiums_pv, coverage_amount * base_reserve_factor)
policy_reserve_of(future_benefits_pv, future_premiums_pv, coverage_amount, factor) ==
    RMax(RSub(future_benefits_pv, future_premiums_pv),
         RMul(I(coverage_amount), factor))

regulatory_calculate_policy_reserves(tables_, policy) ==
    policy_reserve_of(calculate_future_benefits_pv(tables_, policy),
                      calculate_future_premiums_pv(tables_, policy),
                      policy.coverage_amount,
                      base_reserve_factor(policy.product_type))

\* policy.get('policy_anniversary', valuation_date)
policy_anniversary_of(policy, valuation_date) ==
    IF policy.has_policy_anniversary THEN policy.policy_anniversary
    ELSE valuation_date

\* the anniversary falls in the valuation year on or before the valuation date
anniversary_passed(anniversary, valuation) ==
    toordinal(replace_year(anniversary, valuation.year)) <= toordinal(valuation)

unearned_premium_fails(policy, valuation_date) ==
    LET anniversary == policy_anniversary_of(policy, valuation_date)
    IN  \/ replace_year_fails(anniversary, valuation_date.year)
        \/ /\ anniversary_passed(anniversary, valuation_date)
           /\ replace_year_fails(anniversary, valuation_date.year + 1)

days_remaining_of(policy, valuation_date) ==
    LET anniversary == policy_anniversary_of(policy, valuation_date)
        next_anniversary ==
            IF anniversary_passed(anniversary, valuation_date)
            THEN replace_year(anniversary, valuation_date.year + 1)
            ELSE replace_year(anniversary, valuation_date.year)
    IN  toordinal(next_anniversary) - toordinal(valuation_date)

calculate_unearned_premium_reserves(policy, valuation_date) ==
    RMax(RMul(I(policy.annual_premium),
              R(days_remaining_of(policy, valuation_date), 365)),
         I(0))

calculate_claims_reserves(policy) ==
    RMul(I(policy.coverage_amount),
         IF policy.product_type \in DOMAIN claims_reserve_factors
         THEN claims_reserve_factors[policy.product_type] ELSE R(1, 1000))

\* the liability of the bucket of policy i, at the first policy of its product
\* type (the dict of buckets keeps the order of first appearance)
bucket_liability(policy_portfolio, i) ==
    IF \E j \in 1..(i - 1) :
          policy_portfolio[j].product_type = policy_portfolio[i].product_type
    THEN I(0)
    ELSE RSum([j \in 1..Len(policy_portfolio) |->
                 IF policy_portfolio[j].product_type
                        = policy_portfolio[i].product_type
                 THEN I(policy_portfolio[j].coverage_amount) ELSE I(0)])

margin_rate(product_type) ==
    IF product_type \in {"term_life", "whole_life"}
    THEN solvency_margins.life_insurance
    ELSE IF product_type = "disability_income"
    THEN solvency_margins.disability_insurance
    ELSE solvency_margins.critical_illness

calculate_solvency_margin(policy_portfolio) ==
    RSum([i \in 1..Len(policy_portfolio) |->
            RMul(bucket_liability(policy_portfolio, i),
                 margin_rate(policy_portfolio[i].product_type))])

total_coverage_of(policy_portfolio) ==
    RSum([i \in 1..Len(policy_portfolio) |->
            I(policy_portfolio[i].coverage_amount)])

\* math.sqrt(c1_rbc**2 + c2_rbc**2 + c3_rbc**2) + c4_rbc
risk_based_capital_of(total_coverage, total_reserves) ==
    LET c1_rbc == RMul(total_coverage, risk_based_capital.c1_asset_risk)
        c2_rbc == RMul(total_coverage, risk_based_capital.c2_insurance_risk)
        c3_rbc == RMul(total_reserves, risk_based_capital.c3_interest_rate_risk)
        c4_rbc == RMul(total_coverage, risk_based_capital.c4_business_risk)
    IN  Surd(RAdd(RAdd(RMul(c1_rbc, c1_rbc), RMul(c2_rbc, c2_rbc)),
                  RMul(c3_rbc, c3_rbc)),
             c4_rbc)

calculate_risk_based_capital(policy_portfolio, total_reserves) ==
    risk_based_capital_of(total_coverage_of(policy_portfolio), total_reserves)

check_reserve_adequacy_strict(total_reserves, solvency_margin, rbc) ==
    IF SurdLe(rbc, solvency_margin)
    THEN RLt(solvency_margin, total_reserves)
    ELSE SurdLe(rbc, total_reserves) /\ ~RLeSurd(total_reserves, rbc)

\* total_reserves >= max(solvency_margin, rbc)
check_reserve_adequacy(total_reserves, solvency_margin, rbc) ==
    IF SurdLe(rbc, solvency_margin)
    THEN RLe(solvency_margin, total_reserves)
    ELSE SurdLe(rbc, total_reserves)

\* the ReserveCalculation, from the three sums on; the compliance notes are text
ReserveCalculation(policy_portfolio, total_policy_reserves, total_unearned_premium, total_claims_reserves, total_reserves, solvency_margin, rbc) ==
    [error |-> "none",
     policy_reserves |-> total_policy_reserves,
     unearned_premium_reserves |-> total_unearned_premium,
     claims_reserves |-> total_claims_reserves,
     total_reserves |-> total_reserves,
     solvency_margin |-> solvency_margin,
     risk_based_capital |-> rbc,
     regulatory_requirements_met |->
        check_reserve_adequacy(total_reserves, solvency_margin, rbc)]

reserves_from_total(policy_portfolio, total_policy_reserves, total_unearned_premium, total_claims_reserves, total_reserves) ==
    ReserveCalculation(policy_portfolio, total_policy_reserves,
                       total_unearned_premium, total_claims_reserves,
                       total_reserves,
                       calculate_solvency_margin(policy_portfolio),
                       calculate_risk_based_capital(policy_portfolio,
                                                    total_reserves))

reserves_from_sums(policy_portfolio, total_policy_reserves, total_unearned_premium, total_claims_reserves) ==
    reserves_from_total(policy_portfolio, total_policy_reserves,
                        total_unearned_premium, total_claims_reserves,
                        RAdd(RAdd(total_policy_reserves, total_unearned_premium),
                             total_claims_reserves))

\* valuation_date, or datetime.now() when it is None
valuation_date_of(valuation, now) ==
    IF valuation.has_valuation_date THEN valuation.valuation_date ELSE now

reserves_at(tables_, policy_portfolio, valuation_date) ==
    IF \E i \in 1..Len(policy_portfolio) :
          unearned_premium_fails(policy_portfolio[i], valuation_date)
    THEN Failure("ValueError")
    ELSE reserves_from_sums(
             policy_portfolio,
             RSum([i \in 1..Len(policy_portfolio) |->
                     regulatory_calculate_policy_reserves(tables_,
                                                          policy_portfolio[i])]),
             RSum([i \in 1..Len(policy_portfolio) |->
                     calculate_unearned_premium_reserves(policy_portfolio[i],
                                                         valuation_date)]),
             RSum([i \in 1..Len(policy_portfolio) |->
                     calculate_claims_reserves(policy_portfolio[i])]))

calculate_comprehensive_reserves(tables_, policy_portfolio, valuation, now) ==
    reserves_at(tables_, policy_portfolio, valuation_date_of(valuation, now))

(***************************************************************************)
(* Product manager.                                                        *)
(***************************************************************************)
CriticalIllnessTerm == 20

\* the quote's expiry date and the explanation texts are left out; of the policy
\* details only the benefit amount is kept, the rest being display text
ProductQuote(product_type, declined, premium_quote, risk_assessment, policy_details) ==
    [error |-> "none", product_type |-> product_type, declined |-> declined,
     premium_quote |-> premium_quote, risk_assessment |-> risk_assessment,
     policy_details |-> policy_details]

create_declined_quote(products_, product_type, risk_assessment) ==
    IF product_type \notin DOMAIN products_.products THEN Failure("KeyError")
    ELSE ProductQuote(product_type, TRUE,
            [error |-> "none", gross_premium |-> I(0), net_premium |-> I(0),
             expense_load |-> I(0), profit_margin |-> I(0), commission |-> I(0),
             reserves |-> I(0),
             risk_multiplier |-> risk_assessment.overall_risk_multiplier,
             breakdown |-> [status |-> "declined"]],
            risk_assessment, [status |-> "Application Declined"])

\* gross_premium *= overall_risk_multiplier; risk_multiplier = overall_risk_multiplier
apply_risk_adjustment(premium_quote, risk_assessment) ==
    [premium_quote EXCEPT
        !.gross_premium = RMul(@, risk_assessment.overall_risk_multiplier),
        !.risk_multiplier = risk_assessment.overall_risk_multiplier]

approved_life_coverage(coverage_amount, risk_assessment) ==
    IMin(coverage_amount, risk_assessment.maximum_coverage)

\* the risk factors the life quote hands to the pricing
life_risk_factors(applicant_data) ==
    [has_medical_conditions |-> TRUE,
     medical_conditions |-> applicant_data.medical_history.conditions,
     has_smoking_status |-> TRUE,
     smoking_status |-> applicant_data.lifestyle.smoking_status,
     has_hazardous_activities |-> TRUE,
     hazardous_activities |-> applicant_data.lifestyle.hazardous_activities]

\* the quote of an approved application, once priced
priced_quote(product_type, premium_quote, risk_assessment, policy_details) ==
    IF premium_quote.error # "none" THEN premium_quote
    ELSE ProductQuote(product_type, FALSE, premium_quote, risk_assessment,
                      policy_details)

risk_adjusted_quote(product_type, premium_quote, risk_assessment, policy_details) ==
    IF premium_quote.error # "none" THEN premium_quote
    ELSE ProductQuote(product_type, FALSE,
                      apply_risk_adjustment(premium_quote, risk_assessment),
                      risk_assessment, policy_details)

life_quote_from(rules, tables_, products_, applicant_data, coverage_amount, policy_term, product_type, risk_assessment) ==
    IF approved_life_coverage(coverage_amount, risk_assessment) = 0
    THEN create_declined_quote(products_, product_type, risk_assessment)
    ELSE risk_adjusted_quote(
             product_type,
             calculate_life_insurance_premium(
                 rules, tables_, products_, applicant_data.age,
                 applicant_data.gender,
                 approved_life_coverage(coverage_amount, risk_assessment),
                 policy_term, product_type, life_risk_factors(applicant_data)),
             risk_assessment,
             [death_benefit |-> approved_life_coverage(coverage_amount,
                                                       risk_assessment)])

generate_life_insurance_quote(rules, tables_, products_, applicant_data, coverage_amount, policy_term, product_type) ==
    life_quote_from(rules, tables_, products_, applicant_data, coverage_amount,
                    policy_term, product_type,
                    perform_comprehensive_risk_assessment(
                        rules, applicant_data, product_type, coverage_amount))

approved_disability_benefit(monthly_benefit, risk_assessment) ==
    IMin(monthly_benefit, risk_assessment.maximum_coverage \div 12)

disability_quote_from(tables_, morbidity_, products_, applicant_data, monthly_benefit, benefit_period, waiting_period, risk_assessment) ==
    IF approved_disability_benefit(monthly_benefit, risk_assessment) = 0
    THEN create_declined_quote(products_, "disability_income", risk_assessment)
    ELSE risk_adjusted_quote(
             "disability_income",
             calculate_disability_premium(
                 tables_, morbidity_, products_, applicant_data.age,
                 applicant_data.gender, applicant_data.occupation.class,
                 approved_disability_benefit(monthly_benefit, risk_assessment),
                 benefit_period, waiting_period),
             risk_assessment,
             [monthly_benefit |-> approved_disability_benefit(monthly_benefit,
                                                              risk_assessment)])

generate_disability_insurance_quote(rules, tables_, morbidity_, products_, applicant_data, monthly_benefit, benefit_period, waiting_period) ==
    disability_quote_from(tables_, morbidity_, products_, applicant_data,
                          monthly_benefit, benefit_period, waiting_period,
                          perform_comprehensive_risk_assessment(
                              rules, applicant_data, "disability_income",
                              monthly_benefit * 12))

HasAge(age_data, age) == \E k \in 1..Len(age_data) : age_data[k].age = age

\* the rules of the covered conditions the morbidity table knows
covered_conditions_of(product, ci_conditions) ==
    SelectSeq(product.covered_conditions, LAMBDA c : c \in DOMAIN ci_conditions)

\* the QuoteResult of a critical illness premium, from the present values on
CriticalIllnessQuoteResult(product, total_morbidity_rate, net_premium, overall_risk_multiplier, reserves) ==
    LET gross_premium == RMul(RMul(net_premium, loads_of(product)),
                              overall_risk_multiplier)
    IN  [error |-> "none",
         gross_premium |-> gross_premium,
         net_premium |-> net_premium,
         expense_load |-> product.expense_load,
         profit_margin |-> product.profit_margin,
         commission |-> product.commission,
         reserves |-> reserves,
         risk_multiplier |-> overall_risk_multiplier,
         breakdown |->
            [base_morbidity_rate |-> total_morbidity_rate,
             net_premium |-> net_premium,
             gross_premium |-> gross_premium,
             annual_premium |-> RMul(gross_premium, I(12)),
             covered_conditions |-> product.covered_conditions,
             reserves |-> reserves]]

critical_illness_benefit_pv(tables_, coverage_amount, total_morbidity_rate) ==
    RSum([i \in 1..CriticalIllnessTerm |->
            RMul(RMul(I(coverage_amount), total_morbidity_rate),
                 pv_factor(tables_.discount_rates.standard, i - 1))])

critical_illness_premium_from(tables_, products_, product, age, gender, coverage_amount, risk_assessment, total_morbidity_rate) ==
    CriticalIllnessQuoteResult(
        product, total_morbidity_rate,
        net_premium_of(
            critical_illness_benefit_pv(tables_, coverage_amount,
                                        total_morbidity_rate),
            calculate_premium_present_value(tables_, CriticalIllnessTerm, age,
                                            gender)),
        risk_assessment.overall_risk_multiplier,
        RMul(I(coverage_amount),
             products_.regulatory_requirements.reserve_factors["critical_illness"]))

total_morbidity_rate_of(ci_conditions, covered, closest_age, gender) ==
    RSum([i \in 1..Len(covered) |->
            RateAt(ci_conditions[covered[i]], closest_age, gender)])

critical_illness_lookup_fails(tables_, products_, ci_conditions, covered, closest_age, gender) ==
    \/ gender \notin {"male", "female"}
    \/ \E i \in 1..Len(covered) : ~HasAge(ci_conditions[covered[i]], closest_age)
    \/ cso_lookup_fails(tables_, gender, CriticalIllnessTerm)
    \/ "critical_illness"
          \notin DOMAIN products_.regulatory_requirements.reserve_factors

critical_illness_premium_at(tables_, products_, product, ci_conditions, covered, closest_age, age, gender, coverage_amount, risk_assessment) ==
    IF critical_illness_lookup_fails(tables_, products_, ci_conditions, covered,
                                     closest_age, gender)
    THEN Failure("KeyError")
    ELSE critical_illness_premium_from(
             tables_, products_, product, age, gender, coverage_amount,
             risk_assessment,
             total_morbidity_rate_of(ci_conditions, covered, closest_age, gender))

calculate_critical_illness_premium(tables_, morbidity_, products_, applicant_data, coverage_amount, risk_assessment) ==
    IF "critical_illness" \notin DOMAIN products_.products THEN Failure("KeyError")
    ELSE IF "cancer" \notin DOMAIN morbidity_.critical_illness_tables.conditions
    THEN Failure("KeyError")
    ELSE critical_illness_premium_at(
             tables_, products_, products_.products.critical_illness,
             morbidity_.critical_illness_tables.conditions,
             covered_conditions_of(products_.products.critical_illness,
                                   morbidity_.critical_illness_tables.conditions),
             find_closest_age(applicant_data.age,
                              morbidity_.critical_illness_tables.conditions["cancer"]),
             applicant_data.age, applicant_data.gender, coverage_amount,
             risk_assessment)

critical_illness_quote_from(tables_, morbidity_, products_, applicant_data, coverage_amount, risk_assessment) ==
    IF IMin(coverage_amount, risk_assessment.maximum_coverage) = 0
    THEN create_declined_quote(products_, "critical_illness", risk_assessment)
    ELSE priced_quote(
             "critical_illness",
             calculate_critical_illness_premium(
                 tables_, morbidity_, products_, applicant_data,
                 IMin(coverage_amount, risk_assessment.maximum_coverage),
                 risk_assessment),
             risk_assessment,
             [lump_sum_benefit |-> IMin(coverage_amount,
                                        risk_assessment.maximum_coverage)])

generate_critical_illness_quote(rules, tables_, morbidity_, products_, applicant_data, coverage_amount) ==
    critical_illness_quote_from(tables_, morbidity_, products_, applicant_data,
                                coverage_amount,
                                perform_comprehensive_risk_assessment(
                                    rules, applicant_data, "critical_illness",
                                    coverage_amount))

\* one pass of the loop body inside the try: the dispatch on the product type
\* with the dict lookups of the request; an unknown type is skipped
product_request_quote(rules, tables_, morbidity_, products_, applicant_data, product_request) ==
    IF product_request.type \in {"term_life", "whole_life"}
    THEN IF ~product_request.has_coverage_amount THEN Failure("KeyError")
         ELSE generate_life_insurance_quote(
                  rules, tables_, products_, applicant_data,
                  product_request.coverage_amount,
                  IF product_request.has_policy_term
                  THEN product_request.policy_term ELSE 20,
                  product_request.type)
    ELSE IF product_request.type = "disability_income"
    THEN IF ~product_request.has_monthly_benefit THEN Failure("KeyError")
         ELSE generate_disability_insurance_quote(
                  rules, tables_, morbidity_, products_, applicant_data,
                  product_request.monthly_benefit,
                  IF product_request.has_benefit_period
                  THEN product_request.benefit_period ELSE "to_age_65",
                  IF product_request.has_waiting_period
                  THEN product_request.waiting_period ELSE 90)
    ELSE IF product_request.type = "critical_illness"
    THEN IF ~product_request.has_coverage_amount THEN Failure("KeyError")
         ELSE generate_critical_illness_quote(
                  rules, tables_, morbidity_, products_, applicant_data,
                  product_request.coverage_amount)
    ELSE Failure("skipped")

\* product_request['type'] is read before the try: a request without the key
\* ends the whole call; an error inside the try only skips the request
generate_multi_product_quote(rules, tables_, morbidity_, products_, applicant_data, requested_products) ==
    LET quotes[i \in 0..Len(requested_products)] ==
            IF i = 0 THEN <<>>
            ELSE LET quote == product_request_quote(
                                  rules, tables_, morbidity_, products_,
                                  applicant_data, requested_products[i])
                 IN  IF quote.error = "none" THEN Append(quotes[i - 1], quote)
                     ELSE quotes[i - 1]
    IN  IF \E i \in 1..Len(requested_products) : ~requested_products[i].has_type
        THEN Failure("KeyError")
        ELSE [error |-> "none", quotes |-> quotes[Len(requested_products)]]

(***************************************************************************)
(* Inputs of the operations.                                               *)
(***************************************************************************)
OverallRisks == {R(0, 1), R(9, 10), R(19, 20), R(24, 25), R(6, 5), R(61, 50),
                 R(3, 2), I(2), R(201, 100), I(4), R(401, 100), I(10)}
FinancialRisks == {I(1), R(13, 10), I(2), R(13, 5), R(299, 100), I(3),
                   R(7, 2), R(39, 10)}
CoverageAmounts == {0 - 1, 0, 100000, 500000, 500001, 2000000, 2000001, 6000000}

\* height 70.3 in: BMI = 703 * weight / 70.3^2 = weight * 100 / 703
BodyMeasures ==
    {[has_height |-> FALSE, has_weight |-> FALSE, weight |-> I(0), height |-> I(0)],
     [has_height |-> TRUE, has_weight |-> FALSE, weight |-> I(0), height |-> I(70)]}
    \cup {[has_height |-> TRUE, has_weight |-> TRUE, weight |-> w, height |-> h] :
            w \in {I(130), R(26011, 200), I(175), R(703, 4), I(210),
                   R(2109, 10), I(246), R(4921, 20), I(281), R(1406, 5)},
            h \in {R(703, 10)}}
    \cup {[has_height |-> TRUE, has_weight |-> TRUE, weight |-> I(170), height |-> h] :
            h \in {I(0), I(0 - 1)}}

\* weights at height 70.3 in giving BMI 18.49, 18.5, 24.99, 25, 29.99, 30, 34.99,
\* 35, 39.99, 40 and 45
Weights == {R(129983, 1000), R(26011, 200), R(175679, 1000), R(703, 4),
            R(210829, 1000), R(2109, 10), R(245979, 1000), R(4921, 20),
            R(281129, 1000), R(1406, 5), R(6327, 20)}
Heights == {R(703, 10), I(0), I(0 - 1)}

MedicalAges == {60, 61}

MedicalHistories ==
    {[conditions |-> c, has_height |-> b.has_height, has_weight |-> b.has_weight,
      weight |-> b.weight, height |-> b.height, has_age |-> ha, age |-> a] :
        c \in SeqsUpTo(ConditionNames, MaxConditions), b \in BodyMeasures,
        ha \in BOOLEAN, a \in MedicalAges}

\* risk profiles of the applicants of the composite operations
Profile(conds, body, smoking, alcohol, acts, class) ==
    [conditions |-> conds, body |-> body, smoking_status |-> smoking,
     alcohol_use |-> alcohol, hazardous_activities |-> acts, class |-> class]

NoMeasures ==
    [has_height |-> FALSE, has_weight |-> FALSE, weight |-> I(0), height |-> I(0)]

Measures(w, h) ==
    [has_height |-> TRUE, has_weight |-> TRUE, weight |-> w, height |-> h]

Profiles ==
    {Profile(<<>>, NoMeasures, "non_smoker", "none", <<>>, 1),
     Profile(<<>>, Measures(I(170), I(70)), "non_smoker", "moderate_use", <<>>, 2),
     Profile(<<>>, NoMeasures, "non_smoker", "moderate_use", <<>>, 3),
     Profile(<<"hypertension">>, NoMeasures, "non_smoker", "moderate_use", <<>>, 2),
     Profile(<<>>, NoMeasures, "smoker", "moderate_use", <<>>, 2),
     Profile(<<"rare_disease">>, NoMeasures, "smoker", "moderate_use", <<>>, 2),
     Profile(<<>>, NoMeasures, "smoker", "moderate_use", <<"skydiving">>, 4),
     Profile(<<"diabetes", "hypertension">>, Measures(I(300), I(70)), "smoker",
             "heavy_use", <<"skydiving">>, 5)}

WellOff == [annual_income |-> 100000, net_worth |-> 3000000, total_debt |-> 0]

FinancialInfos ==
    {[annual_income |-> 0, net_worth |-> 0, total_debt |-> 0],
     WellOff,
     [annual_income |-> 500000, net_worth |-> 300000, total_debt |-> 250000]}

ApplicantAges == {30, 64, 66, 79, 81}
Genders == {"male", "female"}

Applicant(age, gender, p, f) ==
    [age |-> age, gender |-> gender,
     medical_history |->
        [conditions |-> p.conditions, has_height |-> p.body.has_height,
         has_weight |-> p.body.has_weight, weight |-> p.body.weight,
         height |-> p.body.height, has_age |-> FALSE, age |-> 30],
     lifestyle |->
        [smoking_status |-> p.smoking_status, alcohol_use |-> p.alcohol_use,
         hazardous_activities |-> p.hazardous_activities],
     occupation |-> [class |-> p.class],
     financial_info |-> f]

Applicants ==
    {Applicant(a, "male", p, WellOff) : a \in ApplicantAges, p \in Profiles}
    \cup {Applicant(a, "male", p, f) :
            a \in {30, 64}, p \in Profiles, f \in FinancialInfos}
    \cup {Applicant(79, "female", p, WellOff) : p \in Profiles}

ProductTypes == {"term_life", "whole_life", "disability_income", "critical_illness"}
RequestedCoverages == {0, 100000, 600000, 2100000, 5000000}

PolicyTerms == 0..MaxTerm
LifeProductTypes == {"term_life", "whole_life"}

PricingAges == {17, 30, 78, 79, 80, 81, 86}
PricingCoverages == {49999, 50000, 100000, 1000000, 3000001}
PricingRiskFactors ==
    {NoRiskFactors,
     [NoRiskFactors EXCEPT !.has_smoking_status = TRUE, !.smoking_status = "smoker"],
     [has_medical_conditions |-> TRUE, medical_conditions |-> <<"diabetes">>,
      has_smoking_status |-> TRUE, smoking_status |-> "non_smoker",
      has_hazardous_activities |-> TRUE, hazardous_activities |-> <<"skydiving">>],
     [has_medical_conditions |-> TRUE, medical_conditions |-> <<"hypertension">>,
      has_smoking_status |-> TRUE, smoking_status |-> "vaper",
      has_hazardous_activities |-> TRUE, hazardous_activities |-> <<"chess">>]}

PvAges == {30, 78, 79, 80, 81, 83}
\* terms of the present value sums: range(term) is empty for a term <= 0
PvTerms == {0 - 1} \cup PolicyTerms
PvGenders == Genders \cup {"other"}

\* policies in force valued by the reserve engine
Policies ==
    {[product_type |-> t, coverage_amount |-> 100000, remaining_years |-> y,
      current_age |-> a, gender |-> g] :
        t \in {"term_life", "critical_illness"}, y \in PolicyTerms,
        a \in PvAges, g \in PvGenders}

DisabilityAges == {49, 62, 64, 65, 66, 70, 71}
OccupationClasses == {1, 3, 4}
MonthlyBenefits == {499, 3000, 50000}
BenefitPeriods == {"to_age_65", "2_years", "5_years", "2 years"}
WaitingPeriods == {30, 90, 91, 181}

QuoteMonthlyBenefits == {3000, 50000}
QuoteBenefitPeriods == {"to_age_65", "2_years"}
QuoteWaitingPeriods == {90, 365}

CriticalIllnessCoverages == {0, 100000, 600000, 2100000}

\* product requests of a multi-product quote: complete ones, ones that rely on
\* the defaults, one without its coverage, one of an unknown type, one without
\* a type
ProductRequest(has_type, type) ==
    [has_type |-> has_type, type |-> type,
     has_coverage_amount |-> FALSE, coverage_amount |-> 0,
     has_policy_term |-> FALSE, policy_term |-> 0,
     has_monthly_benefit |-> FALSE, monthly_benefit |-> 0,
     has_benefit_period |-> FALSE, benefit_period |-> "to_age_65",
     has_waiting_period |-> FALSE, waiting_period |-> 0]
ProductRequests ==
    {[ProductRequest(TRUE, "whole_life") EXCEPT
         !.has_coverage_amount = TRUE, !.coverage_amount = 100000,
         !.has_policy_term = TRUE, !.policy_term = 1],
     [ProductRequest(TRUE, "term_life") EXCEPT
         !.has_coverage_amount = TRUE, !.coverage_amount = 100000],
     [ProductRequest(TRUE, "disability_income") EXCEPT
         !.has_monthly_benefit = TRUE, !.monthly_benefit = 3000],
     [ProductRequest(TRUE, "critical_illness") EXCEPT
         !.has_coverage_amount = TRUE, !.coverage_amount = 100000],
     ProductRequest(TRUE, "critical_illness"),
     ProductRequest(TRUE, "annuity"),
     ProductRequest(FALSE, "none")}
MaxRequests == 2
RequestedProducts ==
    UNION {[1..n -> ProductRequests] : n \in 0..MaxRequests}
MultiQuoteApplicants ==
    {a \in Applicants : /\ a.age \in {30, 66}
                        /\ a.gender = "male"
                        /\ a.financial_info = WellOff
                        /\ a.occupation.class \in {1, 2}}

\* occupation classes inside and outside 1..5, ages on both sides of 50
OccupationInfoClasses == 0..6
OccupationAges == {50, 51}

\* financial underwriting on both sides of each threshold: the income limits
\* (20 x 100000; 60% of 100000 / 12), the net worth minimums and a debt ratio of 0.4
FinancialIncomes == {0, 100000}
FinancialNetWorths == {499999, 500000, 1999999, 2000000}
FinancialDebts == {0, 40000, 40001}
FinancialCoverages == {5000, 5001, 999999, 1000000, 2000000, 2000001, 4999999,
                       5000000}

\* the applicant and the assessment as far as the critical illness pricing
\* reads them
CriticalIllnessApplicants ==
    {[age |-> a, gender |-> g] : a \in {17, 18, 40, 65, 66}, g \in Genders}
CriticalIllnessPricedCoverages == {25000, 50000, 1000000, 1100000}
CriticalIllnessAssessments ==
    {[overall_risk_multiplier |-> m] : m \in {I(1), I(2)}}

\* policies whose reserve is computed on its own
PolicyRecords ==
    {[product_type |-> t, coverage_amount |-> c, annual_premium |-> p,
      remaining_years |-> y, current_age |-> a, gender |-> g] :
        t \in {"term_life", "whole_life", "disability_income", "critical_illness",
               "annuity"},
        c \in {0, 1000}, p \in {0, 100, 100000}, y \in PolicyTerms,
        a \in {30, 79}, g \in {"male", "other"}}

\* the policies of the portfolios
PolicyRecord(t, c, p, y, a, g, has, anniversary) ==
    [product_type |-> t, coverage_amount |-> c, annual_premium |-> p,
     remaining_years |-> y, current_age |-> a, gender |-> g,
     has_policy_anniversary |-> has, policy_anniversary |-> anniversary]

NoDate == Date(1, 1, 1)

PortfolioPolicies ==
    {PolicyRecord("term_life", 1000, 19, 0, 38, "male", FALSE, NoDate),
     PolicyRecord("term_life", 1000, 0, 0, 38, "male", FALSE, NoDate),
     PolicyRecord("term_life", 1000, 1460, 1, 80, "male", TRUE, Date(2024, 1, 15)),
     PolicyRecord("term_life", 0, 1460, 0, 38, "male", TRUE, Date(2024, 1, 15)),
     PolicyRecord("whole_life", 1000, 0, 1, 79, "male", FALSE, NoDate),
     PolicyRecord("disability_income", 1000, 0, 2, 35, "female", TRUE,
                  Date(2024, 3, 2)),
     PolicyRecord("critical_illness", 1000, 0, 1, 80, "female", FALSE, NoDate),
     PolicyRecord("critical_illness", 1000, 0, 1, 80, "female", TRUE,
                  Date(2024, 2, 29)),
     PolicyRecord("annuity", 1000, 0, 0, 35, "other", FALSE, NoDate)}

Portfolios == SeqsUpTo(PortfolioPolicies, MaxPolicies)

\* policies and valuation dates of the unearned premium reserve: anniversaries
\* before and after the valuation date, on it, on 29 February, and none
UnearnedPremiums == {0, 365, 1460}
UnearnedAnniversaries ==
    {[has_policy_anniversary |-> FALSE, policy_anniversary |-> NoDate]}
    \cup {[has_policy_anniversary |-> TRUE, policy_anniversary |-> d] :
            d \in {Date(2020, 1, 15), Date(2020, 3, 2), Date(2020, 2, 29),
                   Date(2019, 12, 31)}}
UnearnedPolicies ==
    {[annual_premium |-> p, has_policy_anniversary |-> a.has_policy_anniversary,
      policy_anniversary |-> a.policy_anniversary] :
        p \in UnearnedPremiums, a \in UnearnedAnniversaries}
ValuationDates ==
    {Date(2023, 3, 1), Date(2024, 1, 15), Date(2024, 2, 29), Date(2024, 3, 1),
     Date(2025, 1, 15)}

\* valuation_date: None, or a date
Valuations ==
    {[has_valuation_date |-> FALSE, valuation_date |-> NoDate],
     [has_valuation_date |-> TRUE, valuation_date |-> Date(2025, 1, 15)]}

\* the days datetime.now() goes through
Days == <<Date(2024, 3, 1), Date(2024, 3, 2)>>

\* the operations the core exposes to a caller
CoreOperations ==
    {"assess_risk", "price_life", "price_disability", "price_critical_illness",
     "calculate_portfolio_reserves"}

NotInvoked == [error |-> "not invoked"]

(***************************************************************************)
(* State machine.                                                          *)
(***************************************************************************)
Init ==
    /\ \E c \in Configurations :
          /\ underwriting_rules = UnderwritingRules(c.alcohol_none)
          /\ mortality_tables = MortalityTables(c.discount_rate)
          /\ product_definitions = ProductDefinitions(c.ci_reserve_factor)
    /\ morbidity_tables = MorbidityTables
    /\ op = "idle"
    /\ args = <<>>
    /\ ret = <<>>
    /\ clock = Days[1]
    /\ again = NotInvoked
    /\ requests = <<>>
    /\ quote_results = <<>>

MakeUnderwritingDecision ==
    \E overall \in OverallRisks, financial \in FinancialRisks,
       coverage \in CoverageAmounts :
        /\ op = "idle"
        /\ op' = "make_underwriting_decision"
        /\ args' = [overall_risk |-> overall, financial_risk |-> financial,
                    coverage_amount |-> coverage]
        /\ ret' = make_underwriting_decision(overall, financial, coverage)
        /\ UNCHANGED <<tables, clock, again, in_flight>>

AssessBmiRisk ==
    \E weight \in Weights, height \in Heights :
        /\ op = "idle"
        /\ op' = "assess_bmi_risk"
        /\ args' = [weight |-> weight, height |-> height]
        /\ ret' = LET bmi == calculate_bmi(weight, height)
                      bmi_risk == assess_bmi_risk(bmi)
                  IN  [bmi |-> bmi, mult |-> bmi_risk.mult, text |-> bmi_risk.text]
        /\ UNCHANGED <<tables, clock, again, in_flight>>

AssessMedicalRisk ==
    \E mh \in MedicalHistories :
        /\ op = "idle"
        /\ op' = "assess_medical_risk"
        /\ args' = [medical_history |-> mh]
        /\ ret' = assess_medical_risk(underwriting_rules, mh)
        /\ UNCHANGED <<tables, clock, again, in_flight>>

PerformComprehensiveRiskAssessment ==
    \E applicant \in Applicants, product_type \in ProductTypes,
       coverage \in RequestedCoverages :
        /\ op = "idle"
        /\ op' = "assess_risk"
        /\ args' = [applicant_data |-> applicant, product_type |-> product_type,
                    coverage_amount |-> coverage]
        /\ ret' = perform_comprehensive_risk_assessment(
                      underwriting_rules, applicant, product_type, coverage)
        /\ UNCHANGED <<tables, clock, again, in_flight>>

CalculateMortalityCost ==
    \E age \in PvAges, gender \in PvGenders, term \in PvTerms :
        /\ op = "idle"
        /\ op' = "calculate_mortality_cost"
        /\ args' = [age |-> age, gender |-> gender, term |-> term]
        /\ ret' = IF cso_lookup_fails(mortality_tables, gender, term)
                  THEN Failure("KeyError")
                  ELSE [error |-> "none",
                        total_cost |->
                            calculate_mortality_cost(mortality_tables, age, gender,
                                                     term),
                        rates |-> mortality_rates(mortality_tables.CSO_2017[gender],
                                                  age, term)]
        /\ UNCHANGED <<tables, clock, again, in_flight>>

CalculatePremiumPresentValue ==
    \E age \in PvAges, gender \in PvGenders, term \in PvTerms :
        /\ op = "idle"
        /\ op' = "calculate_premium_present_value"
        /\ args' = [age |-> age, gender |-> gender, term |-> term]
        /\ ret' = IF cso_lookup_fails(mortality_tables, gender, term)
                  THEN Failure("KeyError")
                  ELSE [error |-> "none",
                        pv_premiums |->
                            calculate_premium_present_value(mortality_tables, term,
                                                            age, gender),
                        rates |-> mortality_rates(mortality_tables.CSO_2017[gender],
                                                  age, term)]
        /\ UNCHANGED <<tables, clock, again, in_flight>>

CalculateFutureBenefitsPv ==
    \E policy \in Policies :
        /\ op = "idle"
        /\ op' = "calculate_future_benefits_pv"
        /\ args' = [policy |-> policy]
        /\ ret' = [benefit_pv |->
                      calculate_future_benefits_pv(mortality_tables, policy),
                   rates |-> reserve_mortality_rates(mortality_tables, policy)]
        /\ UNCHANGED <<tables, clock, again, in_flight>>

CalculateLifeInsurancePremium ==
    \E age \in PricingAges, gender \in Genders, coverage \in PricingCoverages,
       term \in PolicyTerms, product_type \in LifeProductTypes,
       risk_factors \in PricingRiskFactors :
        /\ op = "idle"
        /\ op' = "price_life"
        /\ args' = [age |-> age, gender |-> gender, coverage_amount |-> coverage,
                    policy_term |-> term, product_type |-> product_type,
                    risk_factors |-> risk_factors]
        /\ ret' = calculate_life_insurance_premium(
                      underwriting_rules, mortality_tables, product_definitions,
                      age, gender, coverage, term, product_type, risk_factors)
        /\ UNCHANGED <<tables, clock, again, in_flight>>

CalculateDisabilityPremium ==
    \E age \in DisabilityAges, gender \in Genders,
       occupation_class \in OccupationClasses, monthly_benefit \in MonthlyBenefits,
       benefit_period \in BenefitPeriods, waiting_period \in WaitingPeriods :
        /\ op = "idle"
        /\ op' = "price_disability"
        /\ args' = [age |-> age, gender |-> gender,
                    occupation_class |-> occupation_class,
                    monthly_benefit |-> monthly_benefit,
                    benefit_period |-> benefit_period,
                    waiting_period |-> waiting_period]
        /\ ret' = calculate_disability_premium(
                      mortality_tables, morbidity_tables, product_definitions,
                      age, gender, occupation_class, monthly_benefit,
                      benefit_period, waiting_period)
        /\ UNCHANGED <<tables, clock, again, in_flight>>

GenerateLifeInsuranceQuote ==
    \E applicant \in Applicants, coverage \in RequestedCoverages,
       term \in PolicyTerms, product_type \in LifeProductTypes :
        /\ op = "idle"
        /\ op' = "life_quote"
        /\ args' = [applicant_data |-> applicant, coverage_amount |-> coverage,
                    policy_term |-> term, product_type |-> product_type]
        /\ ret' = generate_life_insurance_quote(
                      underwriting_rules, mortality_tables, product_definitions,
                      applicant, coverage, term, product_type)
        /\ UNCHANGED <<tables, clock, again, in_flight>>

GenerateDisabilityInsuranceQuote ==
    \E applicant \in Applicants, monthly_benefit \in QuoteMonthlyBenefits,
       benefit_period \in QuoteBenefitPeriods,
       waiting_period \in QuoteWaitingPeriods :
        /\ op = "idle"
        /\ op' = "disability_quote"
        /\ args' = [applicant_data |-> applicant,
                    monthly_benefit |-> monthly_benefit,
                    benefit_period |-> benefit_period,
                    waiting_period |-> waiting_period]
        /\ ret' = generate_disability_insurance_quote(
                      underwriting_rules, mortality_tables, morbidity_tables,
                      product_definitions, applicant, monthly_benefit,
                      benefit_period, waiting_period)
        /\ UNCHANGED <<tables, clock, again, in_flight>>

GenerateCriticalIllnessQuote ==
    \E applicant \in Applicants, coverage \in CriticalIllnessCoverages :
        /\ op = "idle"
        /\ op' = "critical_illness_quote"
        /\ args' = [applicant_data |-> applicant, coverage_amount |-> coverage]
        /\ ret' = generate_critical_illness_quote(
                      underwriting_rules, mortality_tables, morbidity_tables,
                      product_definitions, applicant, coverage)
        /\ UNCHANGED <<tables, clock, again, in_flight>>

AssessFinancialCapacity ==
    \E income \in FinancialIncomes, net_worth \in FinancialNetWorths,
       debt \in FinancialDebts, coverage \in FinancialCoverages,
       product_type \in ProductTypes :
        /\ op = "idle"
        /\ op' = "assess_financial_capacity"
        /\ args' = [financial_info |->
                       [annual_income |-> income, net_worth |-> net_worth,
                        total_debt |-> debt],
                    coverage_amount |-> coverage, product_type |-> product_type]
        /\ ret' = assess_financial_capacity(
                      underwriting_rules,
                      [annual_income |-> income, net_worth |-> net_worth,
                       total_debt |-> debt],
                      coverage, product_type)
        /\ UNCHANGED <<tables, clock, again, in_flight>>

CalculateCriticalIllnessPremium ==
    \E applicant \in CriticalIllnessApplicants,
       coverage \in CriticalIllnessPricedCoverages,
       risk_assessment \in CriticalIllnessAssessments :
        /\ op = "idle"
        /\ op' = "price_critical_illness"
        /\ args' = [applicant_data |-> applicant, coverage_amount |-> coverage,
                    risk_assessment |-> risk_assessment]
        /\ ret' = calculate_critical_illness_premium(
                      mortality_tables, morbidity_tables, product_definitions,
                      applicant, coverage, risk_assessment)
        /\ UNCHANGED <<tables, clock, again, in_flight>>

CalculatePolicyReserves ==
    \E policy \in PolicyRecords :
        /\ op = "idle"
        /\ op' = "calculate_policy_reserves"
        /\ args' = [policy |-> policy]
        /\ ret' = [policy_reserve |->
                      regulatory_calculate_policy_reserves(mortality_tables,
                                                           policy)]
        /\ UNCHANGED <<tables, clock, again, in_flight>>

CalculateComprehensiveReserves ==
    \E portfolio \in Portfolios, valuation \in Valuations :
        /\ op = "idle"
        /\ op' = "calculate_portfolio_reserves"
        /\ args' = [policy_portfolio |-> portfolio, valuation |-> valuation]
        /\ ret' = calculate_comprehensive_reserves(mortality_tables, portfolio,
                                                   valuation, clock)
        /\ UNCHANGED <<tables, clock, again, in_flight>>

CalculateUnearnedPremiumReserves ==
    \E policy \in UnearnedPolicies, valuation_date \in ValuationDates :
        /\ op = "idle"
        /\ op' = "calculate_unearned_premium_reserves"
        /\ args' = [policy |-> policy, valuation_date |-> valuation_date]
        /\ ret' = IF unearned_premium_fails(policy, valuation_date)
                  THEN Failure("ValueError")
                  ELSE [error |-> "none",
                        unearned_premium |->
                            calculate_unearned_premium_reserves(policy,
                                                                valuation_date)]
        /\ UNCHANGED <<tables, clock, again, in_flight>>

GenerateMultiProductQuote ==
    \E applicant \in MultiQuoteApplicants, requested_products \in RequestedProducts :
        /\ op = "idle"
        /\ op' = "multi_quote"
        /\ args' = [applicant_data |-> applicant,
                    requested_products |-> requested_products]
        /\ ret' = generate_multi_product_quote(
                      underwriting_rules, mortality_tables, morbidity_tables,
                      product_definitions, applicant, requested_products)
        /\ UNCHANGED <<tables, clock, again, in_flight>>

AssessOccupationRisk ==
    \E occupation_class \in OccupationInfoClasses, age \in OccupationAges :
        /\ op = "idle"
        /\ op' = "assess_occupation_risk"
        /\ args' = [occupation_info |-> [class |-> occupation_class], age |-> age]
        /\ ret' = assess_occupation_risk(underwriting_rules,
                                         [class |-> occupation_class], age)
        /\ UNCHANGED <<tables, clock, again, in_flight>>

\* a day passes after the operation has returned
Tick ==
    /\ op # "idle"
    /\ again = NotInvoked
    /\ \E i \in 1..(Len(Days) - 1) : clock = Days[i] /\ clock' = Days[i + 1]
    /\ UNCHANGED <<tables, op, args, ret, again, in_flight>>

\* what the core operation o returns for the arguments a on the day now
Invoke(o, a, now) ==
    CASE o = "assess_risk" ->
            perform_comprehensive_risk_assessment(
                underwriting_rules, a.applicant_data, a.product_type,
                a.coverage_amount)
      [] o = "price_life" ->
            calculate_life_insurance_premium(
                underwriting_rules, mortality_tables, product_definitions,
                a.age, a.gender, a.coverage_amount, a.policy_term,
                a.product_type, a.risk_factors)
      [] o = "price_disability" ->
            calculate_disability_premium(
                mortality_tables, morbidity_tables, product_definitions,
                a.age, a.gender, a.occupation_class, a.monthly_benefit,
                a.benefit_period, a.waiting_period)
      [] o = "price_critical_illness" ->
            calculate_critical_illness_premium(
                mortality_tables, morbidity_tables, product_definitions,
                a.applicant_data, a.coverage_amount, a.risk_assessment)
      [] o = "calculate_portfolio_reserves" ->
            calculate_comprehensive_reserves(mortality_tables, a.policy_portfolio,
                                             a.valuation, now)

\* the caller invokes the core operation again with the same arguments
InvokeAgain ==
    /\ op \in CoreOperations
    /\ again = NotInvoked
    /\ again' = Invoke(op, args, clock)
    /\ UNCHANGED <<tables, op, args, ret, clock, in_flight>>

Next ==
    \/ MakeUnderwritingDecision
    \/ AssessBmiRisk
    \/ AssessMedicalRisk
    \/ PerformComprehensiveRiskAssessment
    \/ CalculateMortalityCost
    \/ CalculatePremiumPresentValue
    \/ CalculateFutureBenefitsPv
    \/ CalculateLifeInsurancePremium
    \/ CalculateDisabilityPremium
    \/ GenerateLifeInsuranceQuote
    \/ GenerateDisabilityInsuranceQuote
    \/ GenerateCriticalIllnessQuote
    \/ AssessFinancialCapacity
    \/ CalculateCriticalIllnessPremium
    \/ CalculatePolicyReserves
    \/ CalculateComprehensiveReserves
    \/ AssessOccupationRisk
    \/ CalculateUnearnedPremiumReserves
    \/ GenerateMultiProductQuote
    \/ Tick
    \/ InvokeAgain

Spec == Init /\ [][Next]_vars

(***************************************************************************)
(* Concurrent requests.  The endpoints call the module singletons          *)
(* product_manager and regulatory_engine, so the requests served at the    *)
(* same time share the tables; each request runs the statements of its     *)
(* handler in order, interleaved with the statements of the others.        *)
(***************************************************************************)
MaxInFlight == 2

ConcurrentApplicants ==
    {a \in Applicants : /\ a.age = 30
                        /\ a.gender = "male"
                        /\ a.financial_info = WellOff
                        /\ a.occupation.class = 2
                        /\ a.medical_history.conditions = <<>>
                        /\ ~a.medical_history.has_height}

LifeQuoteRequest(applicant_data, coverage_amount, policy_term) ==
    [kind |-> "life_quote", applicant_data |-> applicant_data,
     coverage_amount |-> coverage_amount, policy_term |-> policy_term,
     product_type |-> "term_life"]

\* quote requests that are priced, one that is declined, one that the pricing
\* rejects, and a reserve request
ConcurrentRequests ==
    {LifeQuoteRequest(a, 100000, 1) : a \in ConcurrentApplicants}
    \cup {LifeQuoteRequest(a, 0, 1) : a \in {x \in ConcurrentApplicants :
                                              x.lifestyle.smoking_status = "smoker"}}
    \cup {LifeQuoteRequest(a, 100000, 0) : a \in {x \in ConcurrentApplicants :
                                              x.lifestyle.smoking_status = "smoker"}}
    \cup {[kind |-> "reserves",
           policy_portfolio |->
               <<PolicyRecord("term_life", 1000, 19, 0, 38, "male", FALSE, NoDate)>>]}

NoValue == [error |-> "unset"]

\* a request arrives: its handler starts with its own local variables
Submit ==
    \E request \in ConcurrentRequests :
        /\ Len(requests) < MaxInFlight
        /\ requests' = Append(requests,
                              [request |-> request,
                               pc |-> IF request.kind = "life_quote"
                                      THEN "assess" ELSE "reserve",
                               risk_assessment |-> NoValue,
                               premium_quote |-> 0,
                               result |-> NoValue])
        /\ UNCHANGED <<tables, op, args, ret, clock, again, quote_results>>

\* risk_assessment = self.underwriter.perform_comprehensive_risk_assessment(...)
\* and the test of the approved coverage
AssessRisk(i) ==
    LET request == requests[i].request
        risk_assessment == perform_comprehensive_risk_assessment(
                               underwriting_rules, request.applicant_data,
                               request.product_type, request.coverage_amount)
    IN  /\ requests[i].pc = "assess"
        /\ requests' = [requests EXCEPT
               ![i].risk_assessment = risk_assessment,
               ![i].pc = IF approved_life_coverage(request.coverage_amount,
                                                   risk_assessment) = 0
                         THEN "decline" ELSE "price"]
        /\ UNCHANGED <<tables, op, args, ret, clock, again, quote_results>>

\* return self._create_declined_quote(product_type, risk_assessment)
Decline(i) ==
    /\ requests[i].pc = "decline"
    /\ requests' = [requests EXCEPT
           ![i].result = create_declined_quote(product_definitions,
                                               requests[i].request.product_type,
                                               requests[i].risk_assessment),
           ![i].pc = "done"]
    /\ UNCHANGED <<tables, op, args, ret, clock, again, quote_results>>

\* the QuoteResult the pricing call returns is held by one request only
new_quote_result_shared(results) == 1

\* the QuoteResult the pricing call returns: an object constructed by the call
new_quote_result(results) == Len(results) + 1

\* premium_quote = self.calculator.calculate_life_insurance_premium(...); an
\* exception ends the request
Price(i) ==
    LET request == requests[i].request
        approved == approved_life_coverage(request.coverage_amount,
                                           requests[i].risk_assessment)
        quote == calculate_life_insurance_premium(
                     underwriting_rules, mortality_tables, product_definitions,
                     request.applicant_data.age, request.applicant_data.gender,
                     approved, request.policy_term, request.product_type,
                     life_risk_factors(request.applicant_data))
        object == new_quote_result(quote_results)
    IN  /\ requests[i].pc = "price"
        /\ IF quote.error # "none"
           THEN /\ requests' = [requests EXCEPT ![i].result = quote,
                                                ![i].pc = "done"]
                /\ UNCHANGED quote_results
           ELSE /\ quote_results' =
                      [k \in 1..IMax(Len(quote_results), object) |->
                          IF k = object THEN quote ELSE quote_results[k]]
                /\ requests' = [requests EXCEPT ![i].premium_quote = object,
                                                ![i].pc = "adjust_gross_premium"]
        /\ UNCHANGED <<tables, op, args, ret, clock, again>>

\* premium_quote.gross_premium *= risk_assessment.overall_risk_multiplier
AdjustGrossPremium(i) ==
    /\ requests[i].pc = "adjust_gross_premium"
    /\ quote_results' = [quote_results EXCEPT
           ![requests[i].premium_quote].gross_premium =
               RMul(@, requests[i].risk_assessment.overall_risk_multiplier)]
    /\ requests' = [requests EXCEPT ![i].pc = "adjust_risk_multiplier"]
    /\ UNCHANGED <<tables, op, args, ret, clock, again>>

\* premium_quote.risk_multiplier = risk_assessment.overall_risk_multiplier
AdjustRiskMultiplier(i) ==
    /\ requests[i].pc = "adjust_risk_multiplier"
    /\ quote_results' = [quote_results EXCEPT
           ![requests[i].premium_quote].risk_multiplier =
               requests[i].risk_assessment.overall_risk_multiplier]
    /\ requests' = [requests EXCEPT ![i].pc = "return"]
    /\ UNCHANGED <<tables, op, args, ret, clock, again>>

\* return ProductQuote(..., premium_quote=premium_quote, ...)
ReturnQuote(i) ==
    LET request == requests[i].request
    IN  /\ requests[i].pc = "return"
        /\ requests' = [requests EXCEPT
               ![i].result =
                   ProductQuote(request.product_type, FALSE,
                                quote_results[requests[i].premium_quote],
                                requests[i].risk_assessment,
                                [death_benefit |->
                                    approved_life_coverage(
                                        request.coverage_amount,
                                        requests[i].risk_assessment)]),
               ![i].pc = "done"]
        /\ UNCHANGED <<tables, op, args, ret, clock, again, quote_results>>

\* regulatory_engine.calculate_comprehensive_reserves(policy_portfolio)
ReservePortfolio(i) ==
    /\ requests[i].pc = "reserve"
    /\ requests' = [requests EXCEPT
           ![i].result = calculate_comprehensive_reserves(
                             mortality_tables,
                             requests[i].request.policy_portfolio,
                             [has_valuation_date |-> FALSE,
                              valuation_date |-> NoDate],
                             clock),
           ![i].pc = "done"]
    /\ UNCHANGED <<tables, op, args, ret, clock, again, quote_results>>

ConcurrentNext ==
    \/ Submit
    \/ \E i \in 1..Len(requests) : AssessRisk(i)
    \/ \E i \in 1..Len(requests) : Decline(i)
    \/ \E i \in 1..Len(requests) : Price(i)
    \/ \E i \in 1..Len(requests) : AdjustGrossPremium(i)
    \/ \E i \in 1..Len(requests) : AdjustRiskMultiplier(i)
    \/ \E i \in 1..Len(requests) : ReturnQuote(i)
    \/ \E i \in 1..Len(requests) : ReservePortfolio(i)

ConcurrentSpec == Init /\ [][ConcurrentNext]_vars

(***************************************************************************)
(* Properties.                                                             *)
(***************************************************************************)
PricedQuote == ret.error = "none" /\ ~ret.declined

\* C1: the underwriting decision is defined for every input and is one of
\* preferred, standard, substandard or declined (never postponed); a financial
\* risk score of 3.0 or more gives (declined, maximum coverage 0) whatever the
\* overall risk and the requested coverage are.
C1_DecisionTotalFinancialGate ==
    /\ op = "make_underwriting_decision" =>
        /\ ret.decision \in {"approved_preferred", "approved_standard",
                             "approved_substandard", "declined"}
        /\ RLe(I(3), args.financial_risk) =>
              ret = [decision |-> "declined", maximum_coverage |-> 0]
    /\ op = "assess_risk" =>
        /\ ret.underwriting_decision \in {"approved_preferred", "approved_standard",
                                          "approved_substandard", "declined"}
        /\ RLe(I(3), ret.financial_risk_score) =>
              /\ ret.underwriting_decision = "declined"
              /\ ret.maximum_coverage = 0

C1_Witness ==
    /\ op = "make_underwriting_decision"
    /\ args.financial_risk = R(7, 2)
    /\ args.overall_risk = R(9, 10)
    /\ args.coverage_amount = 100000
    /\ ret = [decision |-> "declined", maximum_coverage |-> 0]

\* C2: with a financial risk score below 3.0 the decision and the maximum
\* coverage follow from the overall risk alone: <= 0.95 preferred at the
\* requested coverage; (0.95, 1.2] standard at the requested coverage;
\* (1.2, 2.0] substandard at min(requested, 2,000,000); (2.0, 4.0] substandard
\* at min(requested, 500,000); above 4.0 declined at 0.
C2_RiskBands ==
    (op = "make_underwriting_decision" /\ RLt(args.financial_risk, I(3))) =>
        /\ RLe(args.overall_risk, R(19, 20)) =>
              ret = [decision |-> "approved_preferred",
                     maximum_coverage |-> args.coverage_amount]
        /\ (RLt(R(19, 20), args.overall_risk) /\ RLe(args.overall_risk, R(6, 5))) =>
              ret = [decision |-> "approved_standard",
                     maximum_coverage |-> args.coverage_amount]
        /\ (RLt(R(6, 5), args.overall_risk) /\ RLe(args.overall_risk, I(2))) =>
              ret = [decision |-> "approved_substandard",
                     maximum_coverage |-> IMin(args.coverage_amount, 2000000)]
        /\ (RLt(I(2), args.overall_risk) /\ RLe(args.overall_risk, I(4))) =>
              ret = [decision |-> "approved_substandard",
                     maximum_coverage |-> IMin(args.coverage_amount, 500000)]
        /\ RLt(I(4), args.overall_risk) =>
              ret = [decision |-> "declined", maximum_coverage |-> 0]

C2_Witness ==
    /\ op = "make_underwriting_decision"
    /\ args.financial_risk = R(13, 5)
    /\ args.overall_risk = R(19, 20)
    /\ args.coverage_amount = 2000001
    /\ ret = [decision |-> "approved_preferred", maximum_coverage |-> 2000001]

\* C3: for a non-negative requested coverage the maximum approved coverage is
\* at least 0 and at most the requested coverage, and the coverage (or monthly
\* benefit) a quote is priced at is never more than what was requested.
C3_CoverageWithinRequest ==
    /\ (op = "make_underwriting_decision" /\ args.coverage_amount >= 0) =>
        /\ 0 <= ret.maximum_coverage
        /\ ret.maximum_coverage <= args.coverage_amount
    /\ (op = "assess_risk" /\ args.coverage_amount >= 0) =>
        /\ 0 <= ret.maximum_coverage
        /\ ret.maximum_coverage <= args.coverage_amount
    /\ (op = "life_quote" /\ PricedQuote) =>
        ret.policy_details.death_benefit <= args.coverage_amount
    /\ (op = "disability_quote" /\ PricedQuote) =>
        ret.policy_details.monthly_benefit <= args.monthly_benefit
    /\ (op = "critical_illness_quote" /\ PricedQuote) =>
        ret.policy_details.lump_sum_benefit <= args.coverage_amount

C3_Witness ==
    /\ op = "life_quote"
    /\ PricedQuote
    /\ args.coverage_amount = 2100000
    /\ ret.policy_details.death_benefit = 2000000

\* C4 (as claimed): the overall risk multiplier of an assessment equals
\* min(medical x lifestyle x occupation, 10.0) and lies in (0, 10.0], for rule
\* multipliers >= 0.
C4_OverallRiskPositive ==
    op = "assess_risk" =>
        /\ ret.overall_risk_multiplier =
              RMin(RMul(RMul(ret.medical_risk_multiplier,
                             ret.lifestyle_risk_multiplier),
                        ret.occupation_risk_multiplier), I(10))
        /\ RLt(I(0), ret.overall_risk_multiplier)
        /\ RLe(ret.overall_risk_multiplier, I(10))

\* every multiplier of the underwriting rules is strictly positive
AllRuleMultipliersPositive ==
    /\ \A i \in 1..Len(underwriting_rules.medical_conditions) :
          \A c \in DOMAIN underwriting_rules.medical_conditions[i].conds :
              RLt(I(0), underwriting_rules.medical_conditions[i].conds[c])
    /\ \A k \in DOMAIN underwriting_rules.smoking :
          RLt(I(0), underwriting_rules.smoking[k])
    /\ \A k \in DOMAIN underwriting_rules.alcohol :
          RLt(I(0), underwriting_rules.alcohol[k])
    /\ \A k \in DOMAIN underwriting_rules.hazardous_activities :
          RLt(I(0), underwriting_rules.hazardous_activities[k])
    /\ \A k \in DOMAIN underwriting_rules.occupation_factors :
          RLt(I(0), underwriting_rules.occupation_factors[k])

\* C4 (amended): the overall risk multiplier of an assessment equals
\* min(medical x lifestyle x occupation, 10.0) and lies in [0, 10.0]; it is
\* strictly positive when every rule multiplier is strictly positive, and it is
\* 0 exactly when one of the three sub-multipliers is 0.
C4_OverallRiskCapped ==
    op = "assess_risk" =>
        /\ ret.overall_risk_multiplier =
              RMin(RMul(RMul(ret.medical_risk_multiplier,
                             ret.lifestyle_risk_multiplier),
                        ret.occupation_risk_multiplier), I(10))
        /\ RLe(I(0), ret.overall_risk_multiplier)
        /\ RLe(ret.overall_risk_multiplier, I(10))
        /\ AllRuleMultipliersPositive => RLt(I(0), ret.overall_risk_multiplier)
        /\ ret.overall_risk_multiplier = I(0) <=>
              \/ ret.medical_risk_multiplier = I(0)
              \/ ret.lifestyle_risk_multiplier = I(0)
              \/ ret.occupation_risk_multiplier = I(0)

C4_Witness ==
    /\ op = "assess_risk"
    /\ AllRuleMultipliersPositive
    /\ ret.overall_risk_multiplier = I(10)
    /\ RLt(I(10), RMul(RMul(ret.medical_risk_multiplier,
                            ret.lifestyle_risk_multiplier),
                       ret.occupation_risk_multiplier))

\* C5: for every approved life quote the final gross premium equals
\* net premium x overall risk multiplier x (1 + expense load + profit margin
\* + commission), the applicant's risk being applied exactly once.
C5_RiskAppliedOnce ==
    (op = "life_quote" /\ PricedQuote) =>
        ret.premium_quote.gross_premium =
            RMul(RMul(ret.premium_quote.net_premium,
                      ret.risk_assessment.overall_risk_multiplier),
                 RAdd(RAdd(RAdd(I(1), ret.premium_quote.expense_load),
                           ret.premium_quote.profit_margin),
                      ret.premium_quote.commission))

\* C6: a life premium priced with no risk factors has risk multiplier 1.0 and
\* gross premium = net premium x (1 + expense load + profit margin + commission),
\* and the breakdown amounts adjusted net premium + expense loading + profit
\* margin + commission add up to the gross premium.
C6_NoRiskFactorsRoundTrip ==
    (op = "price_life" /\ args.risk_factors = NoRiskFactors /\ ret.error = "none") =>
        /\ ret.risk_multiplier = I(1)
        /\ ret.gross_premium =
              RMul(ret.net_premium,
                   RAdd(RAdd(RAdd(I(1), ret.expense_load), ret.profit_margin),
                        ret.commission))
        /\ RAdd(RAdd(RAdd(ret.breakdown.adjusted_net_premium,
                          ret.breakdown.expense_loading),
                     ret.breakdown.profit_margin),
                ret.breakdown.commission) = ret.gross_premium

C6_Witness ==
    /\ op = "price_life"
    /\ args.risk_factors = NoRiskFactors
    /\ ret.error = "none"
    /\ args.policy_term = MaxTerm
    /\ args.age = 78
    /\ RLt(I(0), ret.gross_premium)

\* C7: whenever the present value of the premium annuity is 0 (a term of 0,
\* a disability applicant aged 65 or more) the operation returns a premium
\* whose net and gross amounts are 0; the only failures of a pricing operation
\* are the validation and table lookup errors, never a division fault.
C7_ZeroAnnuityZeroPremium ==
    /\ op = "price_life" =>
        /\ ret.error \in {"none", "ValueError", "KeyError"}
        /\ (/\ ret.error = "none"
            /\ calculate_premium_present_value(mortality_tables, args.policy_term,
                                               args.age, args.gender) = I(0)) =>
              (ret.net_premium = I(0) /\ ret.gross_premium = I(0))
    /\ op = "price_disability" =>
        /\ ret.error \in {"none", "ValueError", "KeyError"}
        /\ (/\ ret.error = "none"
            /\ calculate_premium_present_value(mortality_tables, 65 - args.age,
                                               args.age, args.gender) = I(0)) =>
              (ret.net_premium = I(0) /\ ret.gross_premium = I(0))
    /\ op = "critical_illness_quote" =>
        /\ ret.error \in {"none", "ValueError", "KeyError"}
        /\ (/\ PricedQuote
            /\ calculate_premium_present_value(
                   mortality_tables, CriticalIllnessTerm, args.applicant_data.age,
                   args.applicant_data.gender) = I(0)) =>
              (/\ ret.premium_quote.net_premium = I(0)
               /\ ret.premium_quote.gross_premium = I(0))

C7_Witness ==
    /\ op = "price_disability"
    /\ ret.error = "none"
    /\ args.age = 66
    /\ args.benefit_period = "2_years"
    /\ ret.net_premium = I(0)
    /\ ret.gross_premium = I(0)

\* the highest age a mortality table has a rate for
MaxTabulatedAge(cso_table) ==
    CHOOSE a \in DOMAIN cso_table : \A b \in DOMAIN cso_table : b <= a

\* C8: in every year whose attained age is beyond the highest tabulated age of
\* the mortality table, the benefit and premium present value loops use the
\* rate at the highest tabulated age, and the lookup does not fail.
C8_AgeClampedToTableCeiling ==
    /\ (/\ op \in {"calculate_mortality_cost", "calculate_premium_present_value"}
        /\ args.gender \in DOMAIN mortality_tables.CSO_2017) =>
        /\ ret.error = "none"
        /\ \A i \in 1..args.term :
              args.age + (i - 1)
                  > MaxTabulatedAge(mortality_tables.CSO_2017[args.gender]) =>
                ret.rates[i] =
                    mortality_tables.CSO_2017[args.gender][
                        MaxTabulatedAge(mortality_tables.CSO_2017[args.gender])]
    /\ (/\ op = "calculate_future_benefits_pv"
        /\ args.policy.gender \in DOMAIN mortality_tables.CSO_2017) =>
        \A i \in 1..args.policy.remaining_years :
            args.policy.current_age + (i - 1)
                > MaxTabulatedAge(mortality_tables.CSO_2017[args.policy.gender]) =>
              ret.rates[i] =
                  mortality_tables.CSO_2017[args.policy.gender][
                      MaxTabulatedAge(mortality_tables.CSO_2017[args.policy.gender])]

C8_Witness ==
    /\ op = "calculate_premium_present_value"
    /\ args.age = 79
    /\ args.gender = "female"
    /\ args.term = MaxTerm
    /\ ret.error = "none"
    /\ ret.rates[1] = mortality_tables.CSO_2017["female"][79]
    /\ ret.rates[MaxTerm] = mortality_tables.CSO_2017["female"][80]

\* C9: every declared condition contributes exactly one factor to the medical
\* multiplier, in the order declared: the multiplier of the first rule category
\* that contains it, or 1.5 when no category does; an unrecognized condition
\* raises nothing and adds its own risk-factor description.
C9_OneFactorPerCondition ==
    op = "assess_medical_risk" =>
        /\ Len(ret.risk_factors) >= Len(args.medical_history.conditions)
        /\ \A k \in 1..Len(args.medical_history.conditions) :
              /\ ret.risk_factors[k].item = args.medical_history.conditions[k]
              /\ \/ /\ ret.risk_factors[k].kind = "Medical"
                    /\ \E i \in 1..Len(underwriting_rules.medical_conditions) :
                          /\ ret.risk_factors[k].item
                                \in DOMAIN underwriting_rules.medical_conditions[i].conds
                          /\ \A j \in 1..(i - 1) :
                                ret.risk_factors[k].item \notin
                                    DOMAIN underwriting_rules.medical_conditions[j].conds
                          /\ ret.risk_factors[k].mult =
                                underwriting_rules.medical_conditions[i].conds[
                                    ret.risk_factors[k].item]
                 \/ /\ ret.risk_factors[k].kind = "Medical unknown"
                    /\ \A i \in 1..Len(underwriting_rules.medical_conditions) :
                          ret.risk_factors[k].item \notin
                              DOMAIN underwriting_rules.medical_conditions[i].conds
                    /\ ret.risk_factors[k].mult = R(3, 2)
        /\ \A k \in (Len(args.medical_history.conditions) + 1)..Len(ret.risk_factors) :
              ret.risk_factors[k].kind \notin {"Medical", "Medical unknown"}
        /\ ret.multiplier =
              RProd([k \in 1..Len(ret.risk_factors) |-> ret.risk_factors[k].mult])

C9_Witness ==
    /\ op = "assess_medical_risk"
    /\ args.medical_history.conditions = <<"diabetes", "rare_disease">>
    /\ ~args.medical_history.has_height
    /\ ~args.medical_history.has_age
    /\ ret.risk_factors = <<Factor("Medical", "diabetes", I(2)),
                            Factor("Medical unknown", "rare_disease", R(3, 2))>>
    /\ ret.multiplier = I(3)

\* C10: the BMI multiplier is defined for every BMI, with half-open bands:
\* below 18.5 -> 1.2; [18.5, 25) -> 1.0 and no factor text; [25, 30) -> 1.1;
\* [30, 35) -> 1.3; [35, 40) -> 2.0; 40 and above -> 3.0.  A non-positive
\* height gives the BMI 25 and so the multiplier 1.1.
C10_BmiBands ==
    op = "assess_bmi_risk" =>
        /\ RLe(args.height, I(0)) => ret.bmi = I(25)
        /\ RLt(I(0), args.height) =>
              ret.bmi = RDiv(RMul(args.weight, I(703)),
                             RMul(args.height, args.height))
        /\ RLt(ret.bmi, R(37, 2)) => ret.mult = R(6, 5)
        /\ (RLe(R(37, 2), ret.bmi) /\ RLt(ret.bmi, I(25))) =>
              (ret.mult = I(1) /\ ret.text = "None")
        /\ (RLe(I(25), ret.bmi) /\ RLt(ret.bmi, I(30))) => ret.mult = R(11, 10)
        /\ (RLe(I(30), ret.bmi) /\ RLt(ret.bmi, I(35))) => ret.mult = R(13, 10)
        /\ (RLe(I(35), ret.bmi) /\ RLt(ret.bmi, I(40))) => ret.mult = I(2)
        /\ RLe(I(40), ret.bmi) => ret.mult = I(3)
        /\ ret.text = "None" <=> ret.mult = I(1)

C10_Witness ==
    /\ op = "assess_bmi_risk"
    /\ args.height = R(703, 10)
    /\ args.weight = R(703, 4)
    /\ ret.bmi = I(25)
    /\ ret.mult = R(11, 10)
    /\ ret.text = "Overweight BMI"

\* C11 (as claimed): in an assessment the medical multiplier carries the
\* additional factor 1.1, and the age adjustment text is recorded, exactly when
\* the applicant is older than 60 and declares at least one medical condition.
C11_AgeAdjustmentByApplicantAge ==
    op = "assess_risk" =>
        LET applicant == args.applicant_data
            applies == /\ applicant.age > 60
                       /\ Len(applicant.medical_history.conditions) > 0
            recorded ==
                \E i \in 1..Len(ret.risk_factors_identified) :
                    ret.risk_factors_identified[i].kind
                        = "Age adjustment for medical conditions"
            unadjusted ==
                assess_medical_risk(
                    underwriting_rules,
                    [applicant.medical_history EXCEPT !.has_age = FALSE]).multiplier
        IN  /\ applies <=> recorded
            /\ ret.medical_risk_multiplier =
                  IF applies THEN RMul(unadjusted, R(11, 10)) ELSE unadjusted

\* the value the last financial rule that fired sets, 1.0 when none fired
LastFinancialRule(rules, financial_info, coverage_amount, product_type) ==
    LET over_income ==
            \/ /\ product_type \in {"term_life", "whole_life"}
               /\ RLt(RMul(I(financial_info.annual_income),
                           rules.max_coverage_multiple),
                      I(coverage_amount))
            \/ /\ product_type = "disability_income"
               /\ RLt(RMul(R(financial_info.annual_income, 12),
                           rules.max_benefit_percentage),
                      I(coverage_amount))
    IN  IF /\ coverage_amount >= 5000000
           /\ RLt(I(financial_info.net_worth), rules.min_net_worth_5m)
        THEN I(3)
        ELSE IF /\ coverage_amount >= 1000000
                /\ coverage_amount < 5000000
                /\ RLt(I(financial_info.net_worth), rules.min_net_worth_1m)
        THEN I(2)
        ELSE IF over_income THEN I(2)
        ELSE I(1)

FinancialScores == {I(1), R(13, 10), I(2), R(13, 5), I(3), R(39, 10)}

\* C12: the financial score is the value set by the last rule that fired (2.0
\* by the income or benefit limit, 3.0 or 2.0 by the net worth tiers, else
\* 1.0), multiplied by 1.3 exactly when annual_income > 0 and
\* total_debt / annual_income > 0.4; it is one of 1.0, 1.3, 2.0, 2.6, 3.0 and
\* 3.9, and an annual income of 0 gives a score without the debt factor.
C12_FinancialScoreOverwrites ==
    /\ op = "assess_financial_capacity" =>
        LET f == args.financial_info
            last == LastFinancialRule(underwriting_rules, f, args.coverage_amount,
                                      args.product_type)
            high_debt == /\ f.annual_income > 0
                         /\ 5 * f.total_debt > 2 * f.annual_income
        IN  /\ ret.score = IF high_debt THEN RMul(last, R(13, 10)) ELSE last
            /\ ret.score \in FinancialScores
            /\ f.annual_income = 0 => ret.score \in {I(1), I(2), I(3)}
    /\ op = "assess_risk" => ret.financial_risk_score \in FinancialScores

C12_Witness ==
    /\ op = "assess_financial_capacity"
    /\ args.product_type = "term_life"
    /\ args.coverage_amount = 5000000
    /\ args.financial_info =
          [annual_income |-> 100000, net_worth |-> 1999999, total_debt |-> 40001]
    /\ Len(ret.risk_factors) = 3
    /\ ret.risk_factors[1].kind = "Coverage exceeds annual income limit"
    /\ ret.risk_factors[2].kind = "Net worth below requirement"
    /\ ret.score = R(39, 10)

FinancialFactorKinds ==
    {"Coverage exceeds annual income limit",
     "Monthly benefit exceeds share of monthly income",
     "Net worth below requirement", "High debt-to-income ratio"}

NonFinancialFactors(risk_factors) ==
    SelectSeq(risk_factors, LAMBDA x : x.kind \notin FinancialFactorKinds)

\* C13: an assessment of the same applicant and request with any other
\* financial info has the same medical, lifestyle, occupation and overall
\* multipliers and the same non-financial factors; the decision and the
\* maximum coverage differ only when one of the two scores is at the gate
\* (>= 3.0) and the other is not.
C13_FinancialInfoNotInMultipliers ==
    op = "assess_risk" =>
        \A f \in FinancialInfos :
            LET other == perform_comprehensive_risk_assessment(
                             underwriting_rules,
                             [args.applicant_data EXCEPT !.financial_info = f],
                             args.product_type, args.coverage_amount)
            IN  /\ other.medical_risk_multiplier = ret.medical_risk_multiplier
                /\ other.lifestyle_risk_multiplier = ret.lifestyle_risk_multiplier
                /\ other.occupation_risk_multiplier = ret.occupation_risk_multiplier
                /\ other.overall_risk_multiplier = ret.overall_risk_multiplier
                /\ NonFinancialFactors(other.risk_factors_identified)
                      = NonFinancialFactors(ret.risk_factors_identified)
                /\ (RLe(I(3), other.financial_risk_score)
                        <=> RLe(I(3), ret.financial_risk_score)) =>
                      /\ other.underwriting_decision = ret.underwriting_decision
                      /\ other.maximum_coverage = ret.maximum_coverage

C13_Witness ==
    /\ op = "assess_risk"
    /\ args.applicant_data.financial_info # WellOff
    /\ args.coverage_amount = 5000000
    /\ ret.financial_risk_score = R(39, 10)
    /\ ret.underwriting_decision = "declined"
    /\ RLt(I(0), ret.overall_risk_multiplier)
    /\ RLe(ret.overall_risk_multiplier, R(6, 5))
    /\ perform_comprehensive_risk_assessment(
           underwriting_rules,
           [args.applicant_data EXCEPT !.financial_info = WellOff],
           args.product_type, args.coverage_amount).underwriting_decision
          \in {"approved_preferred", "approved_standard"}

\* the date a portfolio is valued on: the operations are invoked on the first
\* of the days
ValuedOn(valuation) == valuation_date_of(valuation, Days[1])

C15_PolicyReserveFloor ==
    op = "calculate_policy_reserves" =>
        LET policy == args.policy
            ratio == CASE policy.product_type = "term_life" -> R(2, 100)
                       [] policy.product_type = "whole_life" -> R(15, 100)
                       [] policy.product_type = "disability_income" -> R(25, 100)
                       [] policy.product_type = "critical_illness" -> R(10, 100)
                       [] OTHER -> R(5, 100)
            floor == RMul(I(policy.coverage_amount), ratio)
            difference == RSub(calculate_future_benefits_pv(mortality_tables, policy),
                               calculate_future_premiums_pv(mortality_tables, policy))
        IN  /\ ret.policy_reserve = IF RLe(floor, difference) THEN difference
                                    ELSE floor
            /\ RLe(floor, ret.policy_reserve)
            /\ policy.coverage_amount >= 0 => RLe(I(0), ret.policy_reserve)

C15_Witness ==
    /\ op = "calculate_policy_reserves"
    /\ args.policy.product_type = "annuity"
    /\ args.policy.coverage_amount = 1000
    /\ args.policy.annual_premium = 100000
    /\ args.policy.remaining_years = MaxTerm
    /\ RLt(calculate_future_benefits_pv(mortality_tables, args.policy),
           calculate_future_premiums_pv(mortality_tables, args.policy))
    /\ ret.policy_reserve = I(50)

\* the reserve factor of a product, 0.05 when the product has none
ReserveFactorOrDefault(product_type) ==
    LET reserve_factors == product_definitions.regulatory_requirements.reserve_factors
    IN  IF product_type \in DOMAIN reserve_factors THEN reserve_factors[product_type]
        ELSE R(5, 100)

\* C16 (as claimed): the reserves of a life, a disability and a critical
\* illness premium are coverage (12 x monthly benefit for disability) x the
\* reserve factor of the product, and a product without a reserve factor is
\* priced with the factor 0.05 rather than failing.
C16_ReservesByFactorOrDefault ==
    /\ (op = "price_life" /\ ret.error = "none") =>
          ret.reserves = RMul(I(args.coverage_amount),
                              ReserveFactorOrDefault(args.product_type))
    /\ (op = "price_disability" /\ ret.error = "none") =>
          ret.reserves = RMul(I(12 * args.monthly_benefit),
                              ReserveFactorOrDefault("disability_income"))
    /\ op = "price_critical_illness" =>
          /\ ret.error = "none"
          /\ ret.reserves = RMul(I(args.coverage_amount),
                                 ReserveFactorOrDefault("critical_illness"))

LifeRequestOutOfBounds(age, coverage, term, product) ==
    \/ age < product.min_age
    \/ age > product.max_age
    \/ coverage < product.min_coverage
    \/ coverage > product.max_coverage
    \/ product.has_terms /\ term \notin product.terms

DisabilityRequestOutOfBounds(age, monthly_benefit, occupation_class, product) ==
    \/ age < product.min_age
    \/ age > product.max_age
    \/ monthly_benefit < product.min_monthly_benefit
    \/ monthly_benefit > product.max_monthly_benefit
    \/ ToString(occupation_class)
          \notin DOMAIN morbidity_tables.disability_tables.occupation_classes

\* C17 (as claimed): a life request whose age, requested coverage or term is
\* outside the bounds of the product ends in a validation error and no quote,
\* approved or declined; likewise a disability request whose age or monthly
\* benefit is out of bounds or whose occupation class is not tabulated.
C17_OutOfBoundsRequestIsRejected ==
    /\ (/\ op = "life_quote"
        /\ LifeRequestOutOfBounds(
               args.applicant_data.age, args.coverage_amount, args.policy_term,
               product_definitions.products[args.product_type])) =>
          ret.error = "ValueError"
    /\ (/\ op = "price_life"
        /\ LifeRequestOutOfBounds(
               args.age, args.coverage_amount, args.policy_term,
               product_definitions.products[args.product_type])) =>
          ret.error = "ValueError"
    /\ (/\ op = "disability_quote"
        /\ DisabilityRequestOutOfBounds(
               args.applicant_data.age, args.monthly_benefit,
               args.applicant_data.occupation.class,
               product_definitions.products.disability_income)) =>
          ret.error = "ValueError"
    /\ (/\ op = "price_disability"
        /\ DisabilityRequestOutOfBounds(
               args.age, args.monthly_benefit, args.occupation_class,
               product_definitions.products.disability_income)) =>
          ret.error = "ValueError"

\* C18 (as claimed): the critical illness pricing ends in a validation error
\* and no quote whenever the age of the applicant is outside [min_age, max_age]
\* of the critical_illness product or the coverage is outside
\* [min_coverage, max_coverage].
C18_CriticalIllnessBoundsValidated ==
    op \in {"price_critical_illness", "critical_illness_quote"} =>
        LET product == product_definitions.products.critical_illness
        IN  (\/ args.applicant_data.age < product.min_age
             \/ args.applicant_data.age > product.max_age
             \/ args.coverage_amount < product.min_coverage
             \/ args.coverage_amount > product.max_coverage) =>
                ret.error = "ValueError"

\* the operation ended in an error
Failed(result) == "error" \in DOMAIN result /\ result.error # "none"

\* C19 (as claimed): a calculation that needs the mortality table of a gender
\* the tables do not hold fails with an error, the reserve calculations
\* included, instead of going on with a default value.
C19_MissingConfigurationFailsFast ==
    /\ (/\ op \in {"calculate_mortality_cost", "calculate_premium_present_value"}
        /\ args.gender \notin DOMAIN mortality_tables.CSO_2017) => Failed(ret)
    /\ (/\ op \in {"calculate_future_benefits_pv", "calculate_policy_reserves"}
        /\ args.policy.gender \notin DOMAIN mortality_tables.CSO_2017) =>
          Failed(ret)
    /\ (/\ op = "calculate_portfolio_reserves"
        /\ \E i \in 1..Len(args.policy_portfolio) :
              args.policy_portfolio[i].gender
                  \notin DOMAIN mortality_tables.CSO_2017) => Failed(ret)

\* C20 (as claimed): a core operation invoked a second time with the same
\* arguments and the same tables returns what it returned the first time,
\* whatever the date of the second invocation.
C20_SecondInvocationReturnsTheSame ==
    again # NotInvoked => again = ret

\* the rate q(a) of a table: the tabulated rate, above the table (and for an
\* age the table does not hold) the rate at the highest tabulated age
ClaimedRate(cso_table, a) ==
    IF a \in DOMAIN cso_table THEN cso_table[a]
    ELSE cso_table[MaxTabulatedAge(cso_table)]

ClaimedRateOfYear(cso_table, age, year) ==
    ClaimedRate(cso_table, IMin(age + year, MaxTabulatedAge(cso_table)))

\* S(0) = 1, S(year + 1) = S(year) x (1 - q(min(age + year, ceiling)))
RECURSIVE ClaimedSurvival(_, _, _)
ClaimedSurvival(cso_table, age, year) ==
    IF year <= 0 THEN I(1)
    ELSE RMul(ClaimedSurvival(cso_table, age, year - 1),
              RSub(I(1), ClaimedRateOfYear(cso_table, age, year - 1)))

\* sum over year in [0, term) of S(year) / (1 + r)^year
RECURSIVE ClaimedAnnuity(_, _, _, _)
ClaimedAnnuity(cso_table, r, age, term) ==
    IF term <= 0 THEN I(0)
    ELSE RAdd(ClaimedAnnuity(cso_table, r, age, term - 1),
              RDiv(ClaimedSurvival(cso_table, age, term - 1),
                   RPow(RAdd(I(1), r), term - 1)))

\* sum over year in [0, term) of q(min(age + year, ceiling)) / (1 + r)^year
RECURSIVE ClaimedCost(_, _, _, _)
ClaimedCost(cso_table, r, age, term) ==
    IF term <= 0 THEN I(0)
    ELSE RAdd(ClaimedCost(cso_table, r, age, term - 1),
              RDiv(ClaimedRateOfYear(cso_table, age, term - 1),
                   RPow(RAdd(I(1), r), term - 1)))

\* C23: the premium annuity is the sum over year in [0, term) of
\* S(year) / (1 + r)^year with S(0) = 1 and S(year + 1) = S(year) x (1 - q), the
\* benefit present value is coverage x the sum of q / (1 + r)^year without a
\* survival factor; both are >= 0 and both are 0 for a term <= 0.
C23_PresentValueSums ==
    LET r == mortality_tables.discount_rates.standard
    IN  /\ (op = "calculate_premium_present_value" /\ ret.error = "none") =>
              LET q == mortality_tables.CSO_2017[args.gender]
              IN  /\ ret.pv_premiums = ClaimedAnnuity(q, r, args.age, args.term)
                  /\ RLe(I(0), ret.pv_premiums)
                  /\ args.term <= 0 => ret.pv_premiums = I(0)
        /\ (op = "calculate_mortality_cost" /\ ret.error = "none") =>
              LET q == mortality_tables.CSO_2017[args.gender]
              IN  /\ ret.total_cost = ClaimedCost(q, r, args.age, args.term)
                  /\ RLe(I(0), ret.total_cost)
                  /\ args.term <= 0 => ret.total_cost = I(0)
        /\ (op = "price_life" /\ ret.error = "none") =>
              LET q == mortality_tables.CSO_2017[args.gender]
                  annuity == ClaimedAnnuity(q, r, args.age, args.policy_term)
                  benefit_pv == RMul(I(args.coverage_amount),
                                     ClaimedCost(q, r, args.age, args.policy_term))
              IN  /\ ret.breakdown.base_mortality_cost
                        = ClaimedCost(q, r, args.age, args.policy_term)
                  /\ RLe(I(0), benefit_pv)
                  /\ RMul(ret.net_premium, annuity)
                        = IF annuity = I(0) THEN I(0) ELSE benefit_pv

\* ages 78, 79, 80 of the male table at a discount rate of 1: S = 1, 3/4, 3/8 and
\* the annuity is 1 + 3/8 + 3/32
C23_Witness ==
    /\ op = "calculate_premium_present_value"
    /\ args = [age |-> 78, gender |-> "male", term |-> 3]
    /\ mortality_tables.discount_rates.standard = I(1)
    /\ ret.error = "none"
    /\ ret.pv_premiums = R(47, 32)

\* the rule key of an occupation class
ClaimedClassKey(occupation_class) ==
    CASE occupation_class = 1 -> "class_1_professional"
      [] occupation_class = 2 -> "class_2_standard"
      [] occupation_class = 3 -> "class_3_skilled"
      [] occupation_class = 4 -> "class_4_manual"
      [] OTHER -> "class_5_hazardous"

\* C24: the occupation multiplier is the rule multiplier of the key of the class
\* (1 professional, 2 standard, 3 skilled, 4 manual, any other value hazardous),
\* or 1.0 with no occupation text when the key has no rule, and it is multiplied
\* by 1.2 exactly when class >= 4 and age > 50.
C24_OccupationMultiplier ==
    LET holds(occupation_class, age, multiplier, texts) ==
            LET key == ClaimedClassKey(occupation_class)
                ruled == key \in DOMAIN underwriting_rules.occupation_factors
                base == IF ruled THEN underwriting_rules.occupation_factors[key]
                        ELSE I(1)
                adjusted == occupation_class >= 4 /\ age > 50
            IN  /\ multiplier = IF adjusted THEN RMul(base, R(12, 10)) ELSE base
                /\ ~ruled => \A i \in 1..Len(texts) : texts[i].kind # "Occupation"
                /\ adjusted <=>
                      \E i \in 1..Len(texts) :
                          texts[i].kind = "Age + hazardous occupation adjustment"
    IN  /\ op = "assess_occupation_risk" =>
              holds(args.occupation_info.class, args.age, ret.multiplier,
                    ret.risk_factors)
        /\ op = "assess_risk" =>
              holds(args.applicant_data.occupation.class, args.applicant_data.age,
                    ret.occupation_risk_multiplier, ret.risk_factors_identified)

\* a manual worker aged 51: 1.5 x 1.2
C24_Witness ==
    /\ op = "assess_occupation_risk"
    /\ args.occupation_info.class = 4
    /\ args.age = 51
    /\ ret.multiplier = R(9, 5)
    /\ Len(ret.risk_factors) = 2

\* C25 (as claimed): in a disability quote for the monthly benefit B and the
\* annual income I the disability income check fires (score 2.0, its text
\* recorded) exactly when B > (I / 12) x max_benefit_percentage.
C25_MonthlyBenefitAgainstMonthlyIncome ==
    (op = "disability_quote" /\ ret.error = "none") =>
        LET income == args.applicant_data.financial_info.annual_income
            limit == RMul(R(income, 12), underwriting_rules.max_benefit_percentage)
            exceeds == RLt(limit, I(args.monthly_benefit))
            texts == ret.risk_assessment.risk_factors_identified
            fired == \E i \in 1..Len(texts) :
                        texts[i].kind
                            = "Monthly benefit exceeds share of monthly income"
        IN  /\ fired <=> exceeds
            /\ fired => RLe(I(2), ret.risk_assessment.financial_risk_score)

\* the year count a benefit period stands for: its leading integer
ClaimedYears(benefit_period, age) ==
    CASE benefit_period = "to_age_65" -> IMax(65 - age, 0)
      [] benefit_period \in {"2_years", "2 years"} -> 2
      [] benefit_period = "5_years" -> 5

\* sum over year in [0, years) of 1 / (1 + r)^year
RECURSIVE ClaimedCertainAnnuity(_, _)
ClaimedCertainAnnuity(r, years) ==
    IF years <= 0 THEN I(0)
    ELSE RAdd(ClaimedCertainAnnuity(r, years - 1),
              RDiv(I(1), RPow(RAdd(I(1), r), years - 1)))

\* C26 (as claimed): the disability pricing of a valid request resolves the
\* benefit period to a year count without raising, 'to_age_65' to
\* max(65 - age, 0) and any other value to its leading integer ('2 years' to 2),
\* and the benefit present value has that many yearly terms.
C26_BenefitPeriodResolves ==
    (/\ op = "price_disability"
     /\ ~DisabilityRequestOutOfBounds(
            args.age, args.monthly_benefit, args.occupation_class,
            product_definitions.products.disability_income)) =>
        /\ ret.error = "none"
        /\ LET r == mortality_tables.discount_rates.standard
               annuity == ClaimedAnnuity(mortality_tables.CSO_2017[args.gender], r,
                                         args.age, 65 - args.age)
               benefit_pv ==
                   RMul(RMul(I(12 * args.monthly_benefit),
                             ret.breakdown.base_morbidity_rate),
                        ClaimedCertainAnnuity(
                            r, ClaimedYears(args.benefit_period, args.age)))
           IN  RMul(ret.net_premium, annuity)
                  = IF annuity = I(0) THEN I(0) ELSE benefit_pv

\* the total coverage of the policies of a portfolio that are of the given types
CoverageOfTypes(policy_portfolio, types) ==
    RSum([i \in 1..Len(policy_portfolio) |->
            IF policy_portfolio[i].product_type \in types
            THEN I(policy_portfolio[i].coverage_amount) ELSE I(0)])

ClaimedSolvencyMargin(policy_portfolio) ==
    RAdd(RAdd(RMul(R(4, 100),
                   CoverageOfTypes(policy_portfolio, {"term_life", "whole_life"})),
              RMul(R(8, 100),
                   CoverageOfTypes(policy_portfolio, {"disability_income"}))),
         RMul(R(6, 100), CoverageOfTypes(policy_portfolio, {"critical_illness"})))

Reversed(seq) == [i \in 1..Len(seq) |-> seq[Len(seq) + 1 - i]]

\* C27 (as claimed): the solvency margin of a portfolio is 0.04 x the coverage of
\* its term and whole life policies + 0.08 x the coverage of its disability
\* policies + 0.06 x the coverage of its critical illness policies, whatever the
\* order of the policies; a policy of another type adds nothing at these rates.
C27_SolvencyMarginByBucket ==
    (op = "calculate_portfolio_reserves" /\ ret.error = "none") =>
        /\ ret.solvency_margin = ClaimedSolvencyMargin(args.policy_portfolio)
        /\ ret.solvency_margin
              = calculate_solvency_margin(Reversed(args.policy_portfolio))

\* the days from the valuation date to the next day after it that has the month
\* and the day of the anniversary (the valuation date itself when the policy
\* has no anniversary)
ClaimedDaysToAnniversary(policy, valuation_date) ==
    LET anniversary == IF policy.has_policy_anniversary
                       THEN policy.policy_anniversary ELSE valuation_date
        this_year == toordinal([anniversary EXCEPT !.year = valuation_date.year])
        next_year == toordinal([anniversary EXCEPT
                                   !.year = valuation_date.year + 1])
    IN  IF this_year > toordinal(valuation_date)
        THEN this_year - toordinal(valuation_date)
        ELSE next_year - toordinal(valuation_date)

\* C28 (as claimed): for every policy with an annual premium >= 0, every
\* valuation date and every anniversary the unearned premium reserve is computed
\* without error, equals annual_premium x (days to the next anniversary) / 365
\* and lies between 0 and the annual premium.
C28_UnearnedPremiumWithinOneYear ==
    (op = "calculate_unearned_premium_reserves"
     /\ args.policy.annual_premium >= 0) =>
        /\ ret.error = "none"
        /\ ret.unearned_premium
              = RMul(I(args.policy.annual_premium),
                     R(ClaimedDaysToAnniversary(args.policy, args.valuation_date),
                       365))
        /\ RLe(I(0), ret.unearned_premium)
        /\ RLe(ret.unearned_premium, I(args.policy.annual_premium))

QuoteOps == {"life_quote", "disability_quote", "critical_illness_quote"}

\* the underwriting decision of the risk assessment the quote was built from
DecisionOfQuote ==
    perform_comprehensive_risk_assessment(
        underwriting_rules, args.applicant_data,
        IF op = "life_quote" THEN args.product_type
        ELSE IF op = "disability_quote" THEN "disability_income"
        ELSE "critical_illness",
        IF op = "disability_quote" THEN args.monthly_benefit * 12
        ELSE args.coverage_amount).underwriting_decision

IsDeclinedQuote(quote) ==
    /\ quote.error = "none"
    /\ quote.declined
    /\ quote.premium_quote.gross_premium = I(0)
    /\ quote.premium_quote.net_premium = I(0)
    /\ quote.premium_quote.reserves = I(0)
    /\ quote.premium_quote.breakdown = [status |-> "declined"]

\* C29 (as claimed): a product quote is the declined quote (premiums 0, reserves
\* 0, breakdown status 'declined') if and only if the underwriting decision of
\* its risk assessment is declined, and every assessment whose decision is
\* preferred, standard or substandard yields a priced quote.
C29_DeclinedQuoteIffDecisionDeclined ==
    (op \in QuoteOps) =>
        /\ IsDeclinedQuote(ret) <=> (DecisionOfQuote = "declined")
        /\ (DecisionOfQuote # "declined") => PricedQuote

\* the multiplier of one declared condition: that of the first category that
\* holds the condition, 1 when no category holds it
ClaimedConditionMultiplier(rules, condition) ==
    LET holding == {i \in 1..Len(rules.medical_conditions) :
                       condition \in DOMAIN rules.medical_conditions[i].conds}
    IN  IF holding = {} THEN I(1)
        ELSE rules.medical_conditions[
                 CHOOSE i \in holding : \A j \in holding : i <= j].conds[condition]

ClaimedRiskMultiplier(rules, risk_factors) ==
    LET conds == IF risk_factors.has_medical_conditions
                 THEN risk_factors.medical_conditions ELSE <<>>
        acts == IF risk_factors.has_hazardous_activities
                THEN risk_factors.hazardous_activities ELSE <<>>
        smoking == IF risk_factors.has_smoking_status
                      /\ risk_factors.smoking_status \in DOMAIN rules.smoking
                   THEN rules.smoking[risk_factors.smoking_status] ELSE I(1)
    IN  RMul(RMul(RProd([i \in 1..Len(conds) |->
                            ClaimedConditionMultiplier(rules, conds[i])]),
                  smoking),
             RProd([i \in 1..Len(acts) |->
                       IF acts[i] \in DOMAIN rules.hazardous_activities
                       THEN rules.hazardous_activities[acts[i]] ELSE I(1)]))

\* C30 (as claimed): the composite risk multiplier of price_life is the product
\* of the first-matching category multiplier of each declared condition that
\* some category holds, of the smoking multiplier when the status has a rule,
\* and of the multiplier of each listed hazardous activity that has a rule.
C30_CompositeRiskMultiplier ==
    (op = "price_life" /\ ret.error = "none") =>
        ret.risk_multiplier = ClaimedRiskMultiplier(underwriting_rules,
                                                    args.risk_factors)

\* the quote one product request gets when it is requested alone: a list of one
AloneQuotes(applicant_data, product_request) ==
    generate_multi_product_quote(
        underwriting_rules, mortality_tables, morbidity_tables,
        product_definitions, applicant_data, <<product_request>>)

\* the quotes of the requests that yield one alone, in the order of the requests
RECURSIVE ClaimedQuotes(_, _)
ClaimedQuotes(applicant_data, requested_products) ==
    IF requested_products = <<>> THEN <<>>
    ELSE LET alone == AloneQuotes(applicant_data, Head(requested_products))
         IN  (IF alone.error = "none" THEN alone.quotes ELSE <<>>)
             \o ClaimedQuotes(applicant_data, Tail(requested_products))

\* C22 (as claimed): for any list of product requests an error raised by one
\* request, or an unknown product type, only omits that request's quote: the
\* call returns, in the order of the requests, the quote every other request
\* gets when it is requested alone.
C22_ErrorsIsolatedPerRequest ==
    (op = "multi_quote") =>
        /\ ret.error = "none"
        /\ ret.quotes = ClaimedQuotes(args.applicant_data, args.requested_products)

\* what the request returns when it is the only one served
AloneResult(request) ==
    IF request.kind = "life_quote"
    THEN generate_life_insurance_quote(
             underwriting_rules, mortality_tables, product_definitions,
             request.applicant_data, request.coverage_amount,
             request.policy_term, request.product_type)
    ELSE calculate_comprehensive_reserves(
             mortality_tables, request.policy_portfolio,
             [has_valuation_date |-> FALSE, valuation_date |-> NoDate], clock)

\* the requests that hold a QuoteResult hold different ones
QuoteResultsArePrivate ==
    \A i, j \in 1..Len(requests) :
        (i # j /\ requests[i].premium_quote # 0 /\ requests[j].premium_quote # 0)
            => requests[i].premium_quote # requests[j].premium_quote

\* C21: under every interleaving of the statements of concurrent quote and
\* reserve requests no step writes to the shared tables, the QuoteResult the
\* risk adjustment mutates belongs to one request only, and every finished
\* request has the result it has when it is served alone.
C21_ConcurrentRequestsDoNotInterfere ==
    /\ [](QuoteResultsArePrivate
          /\ \A i \in 1..Len(requests) :
                requests[i].pc = "done"
                    => requests[i].result = AloneResult(requests[i].request))
    /\ [][tables' = tables]_vars

\* C21 witness: a quote request has returned its risk-adjusted quote while
\* another one was between the two assignments of its own risk adjustment.
C21_Witness ==
    /\ Len(requests) = 2
    /\ requests[1].pc = "adjust_risk_multiplier"
    /\ requests[2].request.kind = "life_quote"
    /\ requests[2].pc = "done"
    /\ requests[2].result.error = "none"
    /\ ~requests[2].result.declined
    /\ requests[2].result.premium_quote.risk_multiplier = I(2)
    /\ requests[2].result = AloneResult(requests[2].request)

====
